---- MODULE Spec2Model ----
(***************************************************************************)
(* Flintrock EC2 back end (flintrock/ec2.py): the EC2Cluster entity, the   *)
(* wait_for_state poller, security-group provisioning, launch with its     *)
(* rollback branch, and tag/group driven discovery.                        *)
(*                                                                         *)
(* The provider (EC2) is modelled as the state the code reads and writes   *)
(* through boto3: instances with a state, security-group memberships and   *)
(* a role tag; security groups with their ingress rules; spot requests.    *)
(* One client runs one command at a time; between its provider calls the   *)
(* provider advances instances and spot requests on its own.  The provider *)
(* answers describe calls with its current state (read-after-write).       *)
(***************************************************************************)
EXTENDS Integers, Sequences, FiniteSets, TLC

\* ------------------------------------------------------------------ bounds
MaxInst == 4        \* instance ids the provider can hand out in one run
MaxSlaves == 2      \* largest num_slaves a launch is given

Ids == 1..MaxInst
Names == {"a"}      \* cluster names the commands are given

\* ------------------------------------------------------- provider vocabulary
BaseGroup == <<"flintrock">>
ClusterGroup(n) == <<"flintrock", n>>      \* 'flintrock-' + cluster_name
IsClusterGroup(g) == Len(g) = 2            \* GroupName.startswith('flintrock-')

FailureCodes == {"price-too-low", "capacity-oversubscribed"}

\* client_rules (ec2.py 356-399): six port ranges for each of the two client
\* CIDRs (local host address, public address), in list order.
ClientCidrs == <<"local", "public">>
ClientPorts == <<"22", "50070", "8080-8081", "4040", "7077", "6066">>
NumClientRules == 12
ClientRule(k) == <<ClientCidrs[((k - 1) \div 6) + 1], ClientPorts[((k - 1) % 6) + 1]>>
SelfRule == <<"self", "all">>

VARIABLES
    \* ---- provider state
    instances,        \* id -> [state, groups, role]
    groups,           \* security groups that exist in the VPC
    rules,            \* set of <<group, rule>>: authorized ingress rules
    requests,         \* id -> [state, code]: spot requests (request i grants instance i)
    \* ---- the running command (client process)
    pc,               \* position in the command
    cmd,              \* the command and its arguments
    cluster,          \* the EC2Cluster object: name, master, slaves (snapshots)
    spot_requests,    \* launch local: last described spot requests
    pending_request_ids, \* launch local
    cluster_instances,   \* launch local: sequence of instance snapshots
    have_groups,      \* security-group provisioning locals: which groups the lookup found
    rule_index,       \* security-group provisioning local: next client rule
    detach_index,     \* destroy local: next instance to detach
    wait,             \* wait_for_state frame: [target, ret]
    raised,           \* the exception being handled by launch's rollback
    yes,              \* answer of the confirmation prompt
    confirmed,        \* rollback reached `if assume_yes or yes` and it held
    result,           \* outcome of the last command that ended
    calls,            \* provider/collaborator calls of the current command, in order
    image,            \* get_ec2_block_device_mappings local: the described image
    block_device_mappings, \* launch local: the planned block devices
    \* ---- a second client process
    other             \* the frame of the client process that is not at its step

provVars == <<instances, groups, rules, requests>>
cliVars == <<pc, cmd, cluster, spot_requests, pending_request_ids, cluster_instances,
             have_groups, rule_index, detach_index, wait, raised, yes, confirmed,
             result, calls, image, block_device_mappings>>
vars == <<instances, groups, rules, requests, pc, cmd, cluster, spot_requests,
          pending_request_ids, cluster_instances, have_groups, rule_index,
          detach_index, wait, raised, yes, confirmed, result, calls, image,
          block_device_mappings, other>>

\* --------------------------------------------------------------- helpers
None == [type |-> "None", at |-> "", reasons |-> {}]
Ok == [type |-> "ok", at |-> "", reasons |-> {}]
Exc(type, at) == [type |-> type, at |-> at, reasons |-> {}]

Call(op, ids) == [op |-> op, ids |-> ids]

Range(s) == {s[k] : k \in 1..Len(s)}

Min(S) == CHOOSE x \in S : \A y \in S : x <= y

RECURSIVE SetToSeq(_)
SetToSeq(S) == IF S = {} THEN <<>> ELSE <<Min(S)>> \o SetToSeq(S \ {Min(S)})

\* a boto3 Instance resource as the client holds it: the attributes loaded by
\* the describe call that produced it
Snap(i) == [id |-> i, state |-> instances[i].state]

SnapIds(s) == {s[k].id : k \in 1..Len(s)}

NoInstance == [id |-> 0, state |-> ""]
NoCluster == [name |-> "", master |-> NoInstance, slaves |-> <<>>]
NoImage == [root_device_type |-> "", root_device_name |-> "", block_device_mappings |-> <<>>]

NoCmd == [op |-> "none", name |-> "", num_slaves |-> 0, spot |-> FALSE, assume_yes |-> FALSE]
NoWait == [target |-> "", ret |-> ""]

NoRequest == [state |-> "none", code |-> "", name |-> "", granted |-> FALSE]
ClosedRequest == [state |-> "closed", code |-> "", name |-> "", granted |-> FALSE]

\* ids the provider has not handed out yet, and the k smallest of them
FreeIds == {i \in Ids : instances[i].state = "absent" /\ requests[i].state = "none"}

RECURSIVE Smallest(_, _)
Smallest(S, k) == IF k = 0 \/ S = {} THEN {} ELSE {Min(S)} \cup Smallest(S \ {Min(S)}, k - 1)

NewIds(k) == Smallest(FreeIds, k)

\* ------------------------------------------------------ EC2Cluster entity
\* EC2Cluster.instances
ClusterInstances(c) == <<c.master>> \o c.slaves

\* faulty variant of ClusterIds: the slaves are left out
ClusterIdsOfMaster(c) == {c.master.id}

ClusterIds(c) == SnapIds(ClusterInstances(c))

\* faulty variant of ClusterState: the state of the master stands for the
\* cluster
ClusterStateOfMaster(c) == c.master.state

\* EC2Cluster.state
ClusterState(c) ==
    LET instance_states == {x.state : x \in Range(ClusterInstances(c))}
    IN  IF Cardinality(instance_states) = 1
        THEN CHOOSE s \in instance_states : TRUE
        ELSE "inconsistent"

\* ------------------------------------------------------------- discovery
Failed(err) == [ok |-> FALSE, err |-> err, master |-> NoInstance, slaves |-> <<>>]

\* faulty variant of consistency_error: a cluster without slaves passes
consistency_error_master_only(master_instance, slave_instances) ==
    IF master_instance = 0 THEN "NoMasterFound" ELSE ""

\* 786-789: the checks after the loop; "" when master and slaves pass
consistency_error(master_instance, slave_instances) ==
    IF master_instance = 0 THEN "NoMasterFound"
    ELSE IF slave_instances = <<>> THEN "NoSlavesFound"
    ELSE ""

\* the loop of _get_cluster_master_slaves over the described instances, in
\* the order the provider lists them.  An instance without any tag has
\* tags = None in boto3, so iterating its tags raises TypeError; an instance
\* with tags but no flintrock-role tag ("other") is passed over.
RECURSIVE MasterSlavesLoop(_, _, _)
MasterSlavesLoop(todo, master_instance, slave_instances) ==
    IF todo = <<>>
    THEN IF consistency_error(master_instance, slave_instances) # ""
         THEN Failed(consistency_error(master_instance, slave_instances))
         ELSE [ok |-> TRUE, err |-> "", master |-> Snap(master_instance),
               slaves |-> slave_instances]
    ELSE LET i == Head(todo) IN
         IF instances[i].role = "none" THEN Failed("TypeError")
         ELSE IF instances[i].role = "master"
              THEN IF master_instance # 0 THEN Failed("MoreThanOneMaster")
                   ELSE MasterSlavesLoop(Tail(todo), i, slave_instances)
              ELSE IF instances[i].role = "slave"
              THEN MasterSlavesLoop(Tail(todo), master_instance,
                                    Append(slave_instances, Snap(i)))
              ELSE MasterSlavesLoop(Tail(todo), master_instance, slave_instances)

_get_cluster_master_slaves(ids) == MasterSlavesLoop(SetToSeq(ids), 0, <<>>)

\* the cluster groups an instance is a member of
ClusterGroupsOf(i) == {g \in instances[i].groups : IsClusterGroup(g)}

\* _get_cluster_name: the name in the first 'flintrock-' group of the instance
_get_cluster_name(i) == (CHOOSE g \in ClusterGroupsOf(i) : TRUE)[2]

\* _compose_cluster
_compose_cluster(name, ids) ==
    LET ms == _get_cluster_master_slaves(ids)
    IN  [ok |-> ms.ok, err |-> ms.err,
         cluster |-> [name |-> name, master |-> ms.master, slaves |-> ms.slaves]]

\* faulty variant of missing_cluster_names: satisfied as soon as one of the
\* requested names was found
missing_cluster_names_unless_any(cluster_names, found_cluster_names) ==
    IF cluster_names \cap found_cluster_names # {} THEN {}
    ELSE cluster_names \ found_cluster_names

\* 735
missing_cluster_names(cluster_names, found_cluster_names) ==
    cluster_names \ found_cluster_names

\* get_clusters: [ok, err, missing, clusters]; cluster_names = {} stands for
\* "no names"; missing is the name the ClusterNotFound message gives
get_clusters(cluster_names) ==
    LET group_name_filter ==
            IF cluster_names # {} THEN {ClusterGroup(cn) : cn \in cluster_names}
            ELSE {BaseGroup}
        all_clusters_instances ==
            {i \in Ids : instances[i].groups \cap group_name_filter # {}}
        nameless == {i \in all_clusters_instances : ClusterGroupsOf(i) = {}}
        found_cluster_names ==
            {_get_cluster_name(i) : i \in all_clusters_instances \ nameless}
        missing == missing_cluster_names(cluster_names, found_cluster_names)
        composed ==
            {_compose_cluster(cn, {i \in all_clusters_instances \ nameless :
                                       _get_cluster_name(i) = cn})
                 : cn \in found_cluster_names}
        broken == {r \in composed : ~r.ok}
    IN  IF nameless # {}
        THEN [ok |-> FALSE, err |-> "CouldNotExtractClusterName", missing |-> "",
              clusters |-> {}]
        ELSE IF cluster_names # {} /\ missing # {}
        THEN [ok |-> FALSE, err |-> "ClusterNotFound",
              missing |-> CHOOSE cn \in missing : TRUE, clusters |-> {}]
        ELSE IF broken # {}
        THEN [ok |-> FALSE, err |-> (CHOOSE r \in broken : TRUE).err, missing |-> "",
              clusters |-> {}]
        ELSE [ok |-> TRUE, err |-> "", missing |-> "",
              clusters |-> {r.cluster : r \in composed}]

\* get_cluster: get_clusters for one name, first element of the result
get_cluster(cluster_name) ==
    LET r == get_clusters({cluster_name})
    IN  [ok |-> r.ok, err |-> r.err,
         cluster |-> IF r.ok THEN CHOOSE c \in r.clusters : TRUE ELSE NoCluster]

\* ----------------------------------------------------------------- frames
\* the frame of the client process at its step, as a record
Frame ==
    [pc |-> pc, cmd |-> cmd, cluster |-> cluster, spot_requests |-> spot_requests,
     pending_request_ids |-> pending_request_ids,
     cluster_instances |-> cluster_instances, have_groups |-> have_groups,
     rule_index |-> rule_index, detach_index |-> detach_index, wait |-> wait,
     raised |-> raised, yes |-> yes, confirmed |-> confirmed, result |-> result,
     calls |-> calls, image |-> image, block_device_mappings |-> block_device_mappings]

\* the frame of a process between two commands
IdleFrame ==
    [pc |-> "idle", cmd |-> NoCmd, cluster |-> NoCluster, spot_requests |-> <<>>,
     pending_request_ids |-> {}, cluster_instances |-> <<>>, have_groups |-> {},
     rule_index |-> 1, detach_index |-> 1, wait |-> NoWait, raised |-> None,
     yes |-> FALSE, confirmed |-> FALSE, result |-> None, calls |-> <<>>,
     image |-> NoImage, block_device_mappings |-> <<>>]

\* ------------------------------------------------------------------ Init
Init ==
    /\ instances = [i \in Ids |-> [state |-> "absent", groups |-> {}, role |-> "none"]]
    /\ groups = {}
    /\ rules = {}
    /\ requests = [i \in Ids |-> NoRequest]
    /\ pc = "idle"
    /\ cmd = NoCmd
    /\ cluster = NoCluster
    /\ spot_requests = <<>>
    /\ pending_request_ids = {}
    /\ cluster_instances = <<>>
    /\ have_groups = {}
    /\ rule_index = 1
    /\ detach_index = 1
    /\ wait = NoWait
    /\ raised = None
    /\ yes = FALSE
    /\ confirmed = FALSE
    /\ result = None
    /\ calls = <<>>
    /\ image = NoImage
    /\ block_device_mappings = <<>>
    /\ other = IdleFrame

\* ------------------------------------------------- provider: own progress
\* The provider takes its own steps where the client waits (between commands,
\* in a sleep of a polling loop or of the settle delay) or is about to make a
\* call whose answer depends on them (cancelling spot requests, detaching
\* instances, deleting a group).  At every other position a provider step
\* commutes with the client's steps up to the next of these positions.
ProviderMoves ==
    pc \in {"idle", "l_poll", "l_settle", "wfs", "r_start", "d_detach", "d_delete"}

\* a terminated instance is no longer a member of any security group, and no
\* command looks at it again: its tags are left out
TerminatedInstance == [state |-> "terminated", groups |-> {}, role |-> "none"]

\* an instance in a transitional state reaches the state it is heading for
InstanceAdvance(i) ==
    /\ ProviderMoves
    /\ instances[i].state \in {"pending", "stopping", "shutting-down"}
    /\ instances' = [instances EXCEPT ![i] =
            IF @.state = "pending" THEN [@ EXCEPT !.state = "running"]
            ELSE IF @.state = "stopping" THEN [@ EXCEPT !.state = "stopped"]
            ELSE TerminatedInstance]
    /\ UNCHANGED <<groups, rules, requests>>
    /\ UNCHANGED cliVars
    /\ UNCHANGED other

\* the client holds the id of request i.  Of a request whose id no client
\* holds (the response that carried it was lost) nothing is ever read again but
\* that its id is used: once it is no longer open it is kept as closed.
Held(i) == \E k \in 1..Len(spot_requests) : spot_requests[k].id = i

\* an open spot request is fulfilled: it becomes active and its instance exists
SpotGrant(i) ==
    /\ ProviderMoves
    /\ requests[i].state = "open"
    /\ requests' = [requests EXCEPT ![i] =
            IF Held(i) THEN [@ EXCEPT !.state = "active", !.granted = TRUE]
            ELSE ClosedRequest]
    /\ instances' = [instances EXCEPT ![i] =
            [state |-> "pending",
             groups |-> {BaseGroup, ClusterGroup(requests[i].name)},
             role |-> "none"]]
    /\ UNCHANGED <<groups, rules>>
    /\ UNCHANGED cliVars
    /\ UNCHANGED other

\* an open spot request fails, with a status code
SpotFail(i, code) ==
    /\ ProviderMoves
    /\ requests[i].state = "open"
    /\ requests' = [requests EXCEPT ![i] =
            IF Held(i) THEN [@ EXCEPT !.state = "failed", !.code = code]
            ELSE ClosedRequest]
    /\ UNCHANGED <<instances, groups, rules>>
    /\ UNCHANGED cliVars
    /\ UNCHANGED other

\* ------------------------------------------------- provider: call effects
Terminated(ids) ==
    [i \in Ids |-> IF i \in ids /\ instances[i].state \notin {"absent", "terminated"}
                   THEN [instances[i] EXCEPT !.state = "shutting-down"]
                   ELSE instances[i]]

Started(ids) ==
    [i \in Ids |-> IF i \in ids /\ instances[i].state = "stopped"
                   THEN [instances[i] EXCEPT !.state = "pending"]
                   ELSE instances[i]]

Stopped(ids) ==
    [i \in Ids |-> IF i \in ids /\ instances[i].state \in {"pending", "running"}
                   THEN [instances[i] EXCEPT !.state = "stopping"]
                   ELSE instances[i]]

Tagged(ids, role) ==
    [i \in Ids |-> IF i \in ids THEN [instances[i] EXCEPT !.role = role]
                   ELSE instances[i]]

Cancelled(ids) ==
    [i \in Ids |-> IF i \in ids /\ requests[i].state \in {"open", "active"}
                   THEN [requests[i] EXCEPT !.state = "cancelled"]
                   ELSE requests[i]]

\* a spot request as describe_spot_instance_requests returns it: its
\* SpotInstanceRequestId, State, Status.Code and whether it has an InstanceId
SnapRequest(i) ==
    [id |-> i, state |-> requests[i].state, code |-> requests[i].code,
     has_instance |-> requests[i].granted]

\* what the client keeps of a described request: launch reads Status.Code and
\* InstanceId in the statement that follows the describe call, and later on
\* only SpotInstanceRequestId and State
Kept(described) ==
    [k \in 1..Len(described) |-> [id |-> described[k].id, state |-> described[k].state]]

\* --------------------------------------------------- command bookkeeping
\* the command ends: `outcome` is what its caller gets (Ok, or the exception
\* that leaves it).  pc = "return" is the moment of the return: every call
\* of the command has been made and its frame is still there to look at.
End(outcome) ==
    /\ pc' = "return"
    /\ result' = outcome

\* the frame of the command that has ended is discarded.  With it goes the
\* only copy of the ids of the spot requests the command made: a request that
\* is no longer open can neither change nor be described again, and the
\* provider keeps of it only that its id is used.
Return ==
    /\ pc = "return"
    /\ pc' = "idle"
    /\ cmd' = NoCmd
    /\ cluster' = NoCluster
    /\ spot_requests' = <<>>
    /\ pending_request_ids' = {}
    /\ cluster_instances' = <<>>
    /\ have_groups' = {}
    /\ rule_index' = 1
    /\ detach_index' = 1
    /\ wait' = NoWait
    /\ raised' = None
    /\ yes' = FALSE
    /\ confirmed' = FALSE
    /\ result' = None
    /\ calls' = <<>>
    /\ image' = NoImage
    /\ block_device_mappings' = <<>>
    /\ requests' = [i \in Ids |-> IF requests[i].state \in {"none", "open"}
                                   THEN requests[i] ELSE ClosedRequest]
    /\ UNCHANGED <<instances, groups, rules>>
    /\ UNCHANGED other

\* an exception or interrupt inside launch's try block (553-657): control
\* passes to the except clause at 659
Rollback(e) ==
    /\ pc' = "r_start"
    /\ raised' = e

Log(c) == calls' = Append(calls, c)

\* ---------------------------------------------------------------- launch
\* launch is called (482-502); nothing has run yet.  Of its arguments
\* cluster_name is read at once; num_slaves, spot_price and assume_yes are not
\* read before the try block at 553, and cmd records them there.
LaunchBegin(name) ==
    /\ pc = "idle"
    /\ pc' = "l_vpc"
    /\ cmd' = [op |-> "launch", name |-> name, num_slaves |-> 0, spot |-> FALSE,
               assume_yes |-> FALSE]
    /\ UNCHANGED provVars
    /\ UNCHANGED <<cluster, spot_requests, pending_request_ids, cluster_instances,
                   have_groups, rule_index, detach_index, wait, raised, yes, confirmed,
                   result, calls>>
    /\ UNCHANGED <<image, block_device_mappings, other>>

\* 506-514: get_default_vpc / check_network_config
LaunchResolveVpc ==
    /\ pc = "l_vpc"
    /\ \E outcome \in {"ok", "NoDefaultVPC", "ConfigurationNotSupported"} :
          IF outcome = "ok"
          THEN pc' = "l_check" /\ UNCHANGED result
          ELSE End(Exc(outcome, "resolve_vpc"))
    /\ UNCHANGED provVars
    /\ UNCHANGED <<cmd, cluster, spot_requests, pending_request_ids, cluster_instances,
                   have_groups, rule_index, detach_index, wait, raised, yes, confirmed,
                   calls>>
    /\ UNCHANGED <<image, block_device_mappings, other>>

\* faulty variant of pre_existence_check: the else branch of the try is
\* missing, so a cluster that is found is not reported
pre_existence_unchecked(cluster_name) ==
    LET r == get_cluster(cluster_name) IN
    IF ~r.ok /\ r.err # "ClusterNotFound" THEN Exc(r.err, "get_cluster")
    ELSE None

\* 516-528: the try/except/else around get_cluster: the exception that
\* leaves it, or None when get_cluster raised ClusterNotFound
pre_existence_check(cluster_name) ==
    LET r == get_cluster(cluster_name) IN
    IF r.ok THEN Exc("ClusterAlreadyExists", "launch")
    ELSE IF r.err = "ClusterNotFound" THEN None
    ELSE Exc(r.err, "get_cluster")

\* 516-528: the pre-existence check
LaunchPreExistenceCheck ==
    /\ pc = "l_check"
    /\ IF pre_existence_check(cmd.name) # None
       THEN End(pre_existence_check(cmd.name))
       ELSE pc' = "sg_lookup" /\ UNCHANGED result
    /\ UNCHANGED provVars
    /\ UNCHANGED <<cmd, cluster, spot_requests, pending_request_ids, cluster_instances,
                   have_groups, rule_index, detach_index, wait, raised, yes, confirmed,
                   calls>>
    /\ UNCHANGED <<image, block_device_mappings, other>>

\* ---------------------------------- get_or_create_ec2_security_groups
\* 323-339: both groups are looked up before anything is created
SgLookup ==
    /\ pc = "sg_lookup"
    /\ have_groups' = groups \cap {BaseGroup, ClusterGroup(cmd.name)}
    /\ pc' = "sg_create_base"
    /\ UNCHANGED provVars
    /\ UNCHANGED <<cmd, cluster, spot_requests, pending_request_ids, cluster_instances,
                   rule_index, detach_index, wait, raised, yes, confirmed, result, calls>>
    /\ UNCHANGED <<image, block_device_mappings, other>>

\* the provider's answers to create_security_group: a name that is in use in
\* the VPC is refused (InvalidGroup.Duplicate), any call can fail
CreateGroupOutcomes(g) == IF g \in groups THEN {"error"} ELSE {"ok", "error"}

\* 341-345
SgCreateBase ==
    /\ pc = "sg_create_base"
    /\ IF BaseGroup \in have_groups
       THEN /\ pc' = "sg_client_ips"
            /\ UNCHANGED <<groups, result, calls>>
       ELSE /\ Log(Call("create_security_group", {}))
            /\ \E outcome \in CreateGroupOutcomes(BaseGroup) :
                  IF outcome = "ok"
                  THEN /\ groups' = groups \cup {BaseGroup}
                       /\ pc' = "sg_client_ips"
                       /\ UNCHANGED result
                  ELSE /\ End(Exc("ClientError", "create_security_group"))
                       /\ UNCHANGED groups
    /\ UNCHANGED <<instances, rules, requests>>
    /\ UNCHANGED <<cmd, cluster, spot_requests, pending_request_ids, cluster_instances,
                   have_groups, rule_index, detach_index, wait, raised, yes, confirmed>>
    /\ UNCHANGED <<image, block_device_mappings, other>>

\* 348-353: local address and public-address lookup; a failure is not caught
SgClientIps ==
    /\ pc = "sg_client_ips"
    /\ \E outcome \in {"ok", "error"} :
          IF outcome = "ok"
          THEN pc' = "sg_client_rules" /\ rule_index' = 1 /\ UNCHANGED result
          ELSE End(Exc("URLError", "checkip")) /\ UNCHANGED rule_index
    /\ UNCHANGED provVars
    /\ UNCHANGED <<cmd, cluster, spot_requests, pending_request_ids, cluster_instances,
                   have_groups, detach_index, wait, raised, yes, confirmed, calls>>
    /\ UNCHANGED <<image, block_device_mappings, other>>

\* the provider's answers to authorize_ingress of rule r on group g: a rule
\* the group already has is answered with InvalidPermission.Duplicate; any
\* call can fail with another ClientError
AuthorizeResponses(g, r) ==
    {IF <<g, r>> \in rules THEN "InvalidPermission.Duplicate" ELSE "ok", "RequestLimitExceeded"}

\* faulty variant of authorize_raises: no look at the error code, every
\* ClientError is raised
authorize_raises_duplicate(code) == code # "ok"

\* faulty variant of authorize_raises: a bare except that swallows every
\* ClientError
authorize_raises_nothing(code) == FALSE

\* 409-412, 430-432: what the except clause does with the answer; only
\* InvalidPermission.Duplicate is swallowed
authorize_raises(code) == code \notin {"ok", "InvalidPermission.Duplicate"}

\* 403-412: one iteration of the loop over client_rules; a ClientError
\* other than the duplicate becomes Exception("Error adding rule"), raised
\* while the ClientError is handled (kept in reasons)
SgAuthorizeClientRule ==
    /\ pc = "sg_client_rules"
    /\ rule_index <= NumClientRules
    /\ Log(Call("authorize_ingress", {}))
    /\ \E code \in AuthorizeResponses(BaseGroup, ClientRule(rule_index)) :
          IF authorize_raises(code)
          THEN /\ End([Exc("Exception", "authorize_ingress") EXCEPT !.reasons = {code}])
               /\ UNCHANGED <<rules, rule_index>>
          ELSE /\ rules' = IF code = "ok"
                           THEN rules \cup {<<BaseGroup, ClientRule(rule_index)>>}
                           ELSE rules
               /\ rule_index' = rule_index + 1
               /\ pc' = IF rule_index = NumClientRules THEN "sg_create_cluster"
                        ELSE "sg_client_rules"
               /\ UNCHANGED result
    /\ UNCHANGED <<instances, groups, requests>>
    /\ UNCHANGED <<cmd, cluster, spot_requests, pending_request_ids, cluster_instances,
                   have_groups, detach_index, wait, raised, yes, confirmed>>
    /\ UNCHANGED <<image, block_device_mappings, other>>

\* 415-419
SgCreateCluster ==
    /\ pc = "sg_create_cluster"
    /\ IF ClusterGroup(cmd.name) \in have_groups
       THEN /\ pc' = "sg_self"
            /\ UNCHANGED <<groups, result, calls>>
       ELSE /\ Log(Call("create_security_group", {}))
            /\ \E outcome \in CreateGroupOutcomes(ClusterGroup(cmd.name)) :
                  IF outcome = "ok"
                  THEN /\ groups' = groups \cup {ClusterGroup(cmd.name)}
                       /\ pc' = "sg_self"
                       /\ UNCHANGED result
                  ELSE /\ End(Exc("ClientError", "create_security_group"))
                       /\ UNCHANGED groups
    /\ UNCHANGED <<instances, rules, requests>>
    /\ UNCHANGED <<cmd, cluster, spot_requests, pending_request_ids, cluster_instances,
                   have_groups, rule_index, detach_index, wait, raised, yes, confirmed>>
    /\ UNCHANGED <<image, block_device_mappings, other>>

\* 421-434: the self-referential rule of the cluster group, then return
SgAuthorizeSelf ==
    /\ pc = "sg_self"
    /\ Log(Call("authorize_ingress", {}))
    /\ \E code \in AuthorizeResponses(ClusterGroup(cmd.name), SelfRule) :
          IF authorize_raises(code)
          THEN /\ End([Exc("Exception", "authorize_ingress") EXCEPT !.reasons = {code}])
               /\ UNCHANGED rules
          ELSE /\ rules' = IF code = "ok"
                           THEN rules \cup {<<ClusterGroup(cmd.name), SelfRule>>}
                           ELSE rules
               /\ pc' = "l_bdm"
               /\ UNCHANGED result
    /\ UNCHANGED <<instances, groups, requests>>
    /\ UNCHANGED <<cmd, cluster, spot_requests, pending_request_ids, cluster_instances,
                   have_groups, rule_index, detach_index, wait, raised, yes, confirmed>>
    /\ UNCHANGED <<image, block_device_mappings, other>>

\* --------------------------------------------- launch: block devices
\* 448
min_root_device_size_gb == 30

\* 472: range(12)
NumEphemeral == 12

\* string.ascii_lowercase
ascii_lowercase ==
    <<"a", "b", "c", "d", "e", "f", "g", "h", "i", "j", "k", "l", "m",
      "n", "o", "p", "q", "r", "s", "t", "u", "v", "w", "x", "y", "z">>

\* a block device mapping of an image, as describe_images gives it: an EBS
\* volume (with its Encrypted flag) or an instance-store volume
EbsDevice(name, size, type, encrypted) ==
    [DeviceName |-> name,
     Ebs |-> [VolumeSize |-> size, VolumeType |-> type, Encrypted |-> encrypted]]

VirtualDevice(name, virtual) == [DeviceName |-> name, VirtualName |-> virtual]

\* the images get_ec2_block_device_mappings is given: EBS-backed with root
\* sizes around the minimum, alone or after a data volume, and
\* instance-store-backed
Images ==
    {[root_device_type |-> "ebs", root_device_name |-> "/dev/sda1",
      block_device_mappings |-> more \o <<EbsDevice("/dev/sda1", size, type, encrypted)>>] :
         size \in {8, min_root_device_size_gb, 100},
         type \in {"standard", "gp2"},
         encrypted \in BOOLEAN,
         more \in {<<>>, <<EbsDevice("/dev/sdf", 500, "standard", FALSE)>>}} \cup
    {[root_device_type |-> "instance-store", root_device_name |-> "/dev/sda1",
      block_device_mappings |-> more] :
         more \in {<<>>, <<VirtualDevice("/dev/sdb", "ephemeral0")>>}}

\* del d[key]
Del(d, key) == [k \in DOMAIN d \ {key} |-> d[k]]

\* faulty variant of resize_root_device: the size is raised, the volume type
\* is left as the image has it
resize_root_device_size_only(root_device) ==
    IF root_device.Ebs.VolumeSize < min_root_device_size_gb
    THEN [root_device EXCEPT !.Ebs.VolumeSize = min_root_device_size_gb]
    ELSE root_device

\* 455-464
resize_root_device(root_device) ==
    IF root_device.Ebs.VolumeSize < min_root_device_size_gb
    THEN [root_device EXCEPT !.Ebs.VolumeSize = min_root_device_size_gb,
                             !.Ebs.VolumeType = "gp2"]
    ELSE root_device

\* 469-472: the i-th ephemeral device, i from 0
ephemeral_device(i) ==
    [VirtualName |-> "ephemeral" \o ToString(i),
     DeviceName |-> "/dev/sd" \o ascii_lowercase[(i + 1) + 1]]

\* 437-478, for the image the provider describes for the ami
get_ec2_block_device_mappings(img) ==
    LET root_device ==
            SelectSeq(img.block_device_mappings,
                      LAMBDA device : device.DeviceName = img.root_device_name)[1]
        resized == resize_root_device(root_device)
    IN  (IF img.root_device_type = "ebs"
         THEN <<[resized EXCEPT !.Ebs = Del(@, "Encrypted")]>>
         ELSE <<>>)
        \o [k \in 1..NumEphemeral |-> ephemeral_device(k - 1)]

\* 535-545: get_ec2_block_device_mappings inside launch; an unknown image
\* is reported as Error
PlanBlockDevices(images) ==
    /\ pc = "l_bdm"
    /\ \/ \E img \in images :
             /\ image' = img
             /\ block_device_mappings' = get_ec2_block_device_mappings(img)
             /\ pc' = "l_acquire"
             /\ UNCHANGED result
       \/ /\ End(Exc("Error", "InvalidAMIID.NotFound"))
          /\ UNCHANGED <<image, block_device_mappings>>
    /\ UNCHANGED provVars
    /\ UNCHANGED <<cmd, cluster, spot_requests, pending_request_ids, cluster_instances,
                   have_groups, rule_index, detach_index, wait, raised, yes, confirmed,
                   calls>>
    /\ UNCHANGED other

LaunchBlockDevices == PlanBlockDevices(Images)

\* ------------------------------------------------- launch: acquisition
\* faulty variant of Created: the instances are put into the base group only
CreatedInBaseGroupOnly(ids, name) ==
    [i \in Ids |-> IF i \in ids
                   THEN [state |-> "pending", groups |-> {BaseGroup}, role |-> "none"]
                   ELSE instances[i]]

\* instances as create_instances / a spot grant makes them: pending, members
\* of both security groups, untagged
Created(ids, name) ==
    [i \in Ids |-> IF i \in ids
                   THEN [state |-> "pending",
                         groups |-> {BaseGroup, ClusterGroup(name)},
                         role |-> "none"]
                   ELSE instances[i]]

\* the answers the provider can give to a call that makes k instances or
\* requests: it refuses when it has not that many left.  "lost": the provider
\* has carried the call out when an interrupt ends it in the client, so the
\* assignment of its result never happens.
AcquireOutcomes(k) ==
    IF Cardinality(FreeIds) >= k THEN {"ok", "error", "lost"} ELSE {"error"}

\* 605-623: the on-demand path, one bulk create call
LaunchCreateInstances(num_slaves, assume_yes) ==
    /\ pc = "l_acquire"
    /\ cmd' = [cmd EXCEPT !.num_slaves = num_slaves, !.spot = FALSE,
                          !.assume_yes = assume_yes]
    /\ LET new == NewIds(num_slaves + 1) IN
       /\ Log(Call("create_instances", new))
       /\ \E outcome \in AcquireOutcomes(num_slaves + 1) :
             CASE outcome = "ok" ->
                    /\ instances' = Created(new, cmd.name)
                    /\ cluster_instances' =
                           [k \in 1..Len(SetToSeq(new)) |->
                               [id |-> SetToSeq(new)[k], state |-> "pending"]]
                    /\ pc' = "l_settle"
                    /\ UNCHANGED raised
               [] outcome = "error" ->
                    /\ Rollback(Exc("ClientError", "create_instances"))
                    /\ UNCHANGED <<instances, cluster_instances>>
               [] outcome = "lost" ->
                    /\ instances' = Created(new, cmd.name)
                    /\ Rollback(Exc("KeyboardInterrupt", "create_instances"))
                    /\ UNCHANGED cluster_instances
    /\ UNCHANGED <<groups, rules, requests>>
    /\ UNCHANGED <<cluster, spot_requests, pending_request_ids, have_groups,
                   rule_index, detach_index, wait, yes, confirmed, result>>
    /\ image' = NoImage
    /\ block_device_mappings' = <<>>
    /\ UNCHANGED other

\* 554-576: the spot path, one request for num_instances instances
LaunchRequestSpot(num_slaves, assume_yes) ==
    /\ pc = "l_acquire"
    /\ cmd' = [cmd EXCEPT !.num_slaves = num_slaves, !.spot = TRUE,
                          !.assume_yes = assume_yes]
    /\ LET new == NewIds(num_slaves + 1)
           opened == [i \in Ids |-> IF i \in new
                                    THEN [state |-> "open", code |-> "",
                                          name |-> cmd.name, granted |-> FALSE]
                                    ELSE requests[i]]
       IN
       /\ Log(Call("request_spot_instances", new))
       /\ \E outcome \in AcquireOutcomes(num_slaves + 1) :
             CASE outcome = "ok" ->
                    /\ requests' = opened
                    /\ spot_requests' =
                           [k \in 1..Len(SetToSeq(new)) |->
                               [id |-> SetToSeq(new)[k], state |-> "open"]]
                    /\ pending_request_ids' = new
                    /\ pc' = "l_poll"
                    /\ UNCHANGED raised
               [] outcome = "error" ->
                    /\ Rollback(Exc("ClientError", "request_spot_instances"))
                    /\ UNCHANGED <<requests, spot_requests, pending_request_ids>>
               [] outcome = "lost" ->
                    /\ requests' = opened
                    /\ Rollback(Exc("KeyboardInterrupt", "request_spot_instances"))
                    /\ UNCHANGED <<spot_requests, pending_request_ids>>
    /\ UNCHANGED <<instances, groups, rules>>
    /\ UNCHANGED <<cluster, cluster_instances, have_groups, rule_index,
                   detach_index, wait, yes, confirmed, result>>
    /\ image' = NoImage
    /\ block_device_mappings' = <<>>
    /\ UNCHANGED other

\* 578-597: one iteration of the polling loop: sleep, describe, abort on a
\* failed request, recompute the pending ids
LaunchSpotPoll ==
    /\ pc = "l_poll"
    /\ pending_request_ids # {}
    /\ \E outcome \in {"ok", "error"} :
          IF outcome = "ok"
          THEN LET described == [k \in 1..Len(spot_requests) |->
                                    SnapRequest(spot_requests[k].id)]
                   failed_requests == {r \in Range(described) : r.state = "failed"}
               IN  /\ spot_requests' = Kept(described)
                   /\ IF failed_requests # {}
                      THEN /\ Rollback([type |-> "Error", at |-> "spot_request_failed",
                                        reasons |-> {r.code : r \in failed_requests}])
                           /\ UNCHANGED pending_request_ids
                      ELSE /\ pending_request_ids' =
                                  {r.id : r \in {x \in Range(described) : x.state = "open"}}
                           /\ pc' = "l_poll"
                           /\ UNCHANGED raised
          ELSE /\ Rollback(Exc("KeyboardInterrupt", "spot_poll"))
               /\ UNCHANGED <<spot_requests, pending_request_ids>>
    /\ UNCHANGED provVars
    /\ UNCHANGED <<cmd, cluster, cluster_instances, have_groups, rule_index,
                   detach_index, wait, yes, confirmed, result, calls>>
    /\ UNCHANGED <<image, block_device_mappings, other>>

\* 599-603: the loop has ended; the granted instances are described
LaunchSpotCollect ==
    /\ pc = "l_poll"
    /\ pending_request_ids = {}
    /\ \E outcome \in {"ok", "error"} :
          IF outcome = "ok"
          THEN /\ cluster_instances' =
                      [k \in 1..Len(spot_requests) |-> Snap(spot_requests[k].id)]
               /\ pc' = "l_settle"
               /\ UNCHANGED raised
          ELSE /\ Rollback(Exc("ClientError", "describe_instances"))
               /\ UNCHANGED cluster_instances
    /\ UNCHANGED provVars
    /\ UNCHANGED <<cmd, cluster, spot_requests, pending_request_ids, have_groups,
                   rule_index, detach_index, wait, yes, confirmed, result, calls>>
    /\ UNCHANGED <<image, block_device_mappings, other>>

\* 625: the settle delay
LaunchSettle ==
    /\ pc = "l_settle"
    /\ \E outcome \in {"ok", "interrupt"} :
          IF outcome = "ok"
          THEN pc' = "l_tag_master" /\ UNCHANGED raised
          ELSE Rollback(Exc("KeyboardInterrupt", "settle"))
    /\ UNCHANGED provVars
    /\ UNCHANGED <<cmd, cluster, spot_requests, pending_request_ids, cluster_instances,
                   have_groups, rule_index, detach_index, wait, yes, confirmed, result,
                   calls>>
    /\ UNCHANGED <<image, block_device_mappings, other>>

\* 627-635: the first instance becomes the master
LaunchTagMaster ==
    /\ pc = "l_tag_master"
    /\ LET master_instance == cluster_instances[1] IN
       /\ Log(Call("create_tags_master", {master_instance.id}))
       /\ \E outcome \in {"ok", "error"} :
             IF outcome = "ok"
             THEN /\ instances' = Tagged({master_instance.id}, "master")
                  /\ pc' = "l_tag_slaves"
                  /\ UNCHANGED raised
             ELSE /\ Rollback(Exc("ClientError", "create_tags"))
                  /\ UNCHANGED instances
    /\ UNCHANGED <<groups, rules, requests>>
    /\ UNCHANGED <<cmd, cluster, spot_requests, pending_request_ids, cluster_instances,
                   have_groups, rule_index, detach_index, wait, yes, confirmed, result>>
    /\ UNCHANGED <<image, block_device_mappings, other>>

\* 636-651: the others become slaves; the EC2Cluster is built and
\* wait_for_state('running') is entered
LaunchTagSlaves ==
    /\ pc = "l_tag_slaves"
    /\ LET slave_instances == Tail(cluster_instances) IN
       /\ \E outcome \in {"ok", "error"} :
             IF outcome = "ok"
             THEN /\ instances' = Tagged(SnapIds(slave_instances), "slave")
                  /\ cluster' = [name |-> cmd.name, master |-> cluster_instances[1],
                                 slaves |-> slave_instances]
                  /\ wait' = [target |-> "running", ret |-> "l_provision"]
                  /\ calls' = calls \o <<Call("create_tags_slave", SnapIds(slave_instances)),
                                         Call("wait_for_state", SnapIds(cluster_instances))>>
                  /\ pc' = "wfs"
                  /\ UNCHANGED raised
             ELSE /\ Rollback(Exc("ClientError", "create_tags"))
                  /\ Log(Call("create_tags_slave", SnapIds(slave_instances)))
                  /\ UNCHANGED <<instances, cluster, wait>>
    /\ UNCHANGED <<groups, rules, requests>>
    /\ UNCHANGED <<cmd, spot_requests, pending_request_ids, cluster_instances,
                   have_groups, rule_index, detach_index, yes, confirmed, result>>
    /\ UNCHANGED <<image, block_device_mappings, other>>

\* 653-657: the service provisioner
LaunchProvision ==
    /\ pc = "l_provision"
    /\ Log(Call("provision_cluster", ClusterIds(cluster)))
    /\ \E outcome \in {"ok", "error"} :
          IF outcome = "ok"
          THEN End(Ok) /\ UNCHANGED raised
          ELSE Rollback(Exc("Exception", "provision_cluster")) /\ UNCHANGED result
    /\ UNCHANGED provVars
    /\ UNCHANGED <<cmd, cluster, spot_requests, pending_request_ids, cluster_instances,
                   have_groups, rule_index, detach_index, wait, yes, confirmed>>
    /\ UNCHANGED <<image, block_device_mappings, other>>

\* -------------------------------------------------------- wait_for_state
\* an exception that leaves wait_for_state: launch catches it (659), the
\* other commands end with it
WaitRaise(e) ==
    IF cmd.op = "launch"
    THEN Rollback(e) /\ UNCHANGED result
    ELSE End(e) /\ UNCHANGED raised

\* faulty variant of wait_condition: all() in place of any()
wait_condition_all(c, state) ==
    \A x \in Range(ClusterInstances(c)) : x.state # state

\* faulty variant of wait_condition: the loop is never entered, the wait
\* returns at once
wait_condition_never(c, state) == FALSE

\* 126: the loop condition, any([i.state['Name'] != state for i in self.instances])
wait_condition(c, state) ==
    \E x \in Range(ClusterInstances(c)) : x.state # state

\* 126: the loop condition is false, wait_for_state returns
WaitReturn ==
    /\ pc = "wfs"
    /\ ~wait_condition(cluster, wait.target)
    /\ pc' = wait.ret
    /\ Log(Call("wait_returned", ClusterIds(cluster)))
    /\ UNCHANGED provVars
    /\ UNCHANGED <<cmd, cluster, spot_requests, pending_request_ids, cluster_instances,
                   have_groups, rule_index, detach_index, wait, raised, yes, confirmed,
                   result>>
    /\ UNCHANGED <<image, block_device_mappings, other>>

\* faulty variant of WaitRefresh: a do-while loop, the body runs before the
\* condition is looked at
WaitRefreshFirst ==
    /\ pc = "wfs"
    /\ \E outcome \in {"ok", "error"} :
          IF outcome = "ok"
          THEN LET ms == _get_cluster_master_slaves(ClusterIds(cluster)) IN
               IF ms.ok
               THEN /\ cluster' = [cluster EXCEPT !.master = ms.master,
                                                  !.slaves = ms.slaves]
                    /\ UNCHANGED <<pc, raised, result>>
               ELSE /\ WaitRaise(Exc(ms.err, "wait_for_state"))
                    /\ UNCHANGED cluster
          ELSE /\ WaitRaise(Exc("KeyboardInterrupt", "wait_for_state"))
               /\ UNCHANGED cluster
    /\ UNCHANGED provVars
    /\ UNCHANGED <<cmd, spot_requests, pending_request_ids, cluster_instances,
                   have_groups, rule_index, detach_index, wait, yes, confirmed, calls>>
    /\ UNCHANGED <<image, block_device_mappings, other>>

\* faulty variant of WaitRefresh: the describe is made and its result is not
\* stored, the instances keep the snapshot they had
WaitRefreshStale ==
    /\ pc = "wfs"
    /\ wait_condition(cluster, wait.target)
    /\ \E outcome \in {"ok", "error"} :
          IF outcome = "ok"
          THEN UNCHANGED <<pc, raised, result>>
          ELSE WaitRaise(Exc("KeyboardInterrupt", "wait_for_state"))
    /\ UNCHANGED cluster
    /\ UNCHANGED provVars
    /\ UNCHANGED <<cmd, spot_requests, pending_request_ids, cluster_instances,
                   have_groups, rule_index, detach_index, wait, yes, confirmed, calls>>
    /\ UNCHANGED <<image, block_device_mappings, other>>

\* 126-134: the loop condition is true; one batched describe of the tracked
\* ids, the master/slave split is derived again, sleep
WaitRefresh ==
    /\ pc = "wfs"
    /\ wait_condition(cluster, wait.target)
    /\ \E outcome \in {"ok", "error"} :
          IF outcome = "ok"
          THEN LET ms == _get_cluster_master_slaves(ClusterIds(cluster)) IN
               IF ms.ok
               THEN /\ cluster' = [cluster EXCEPT !.master = ms.master,
                                                  !.slaves = ms.slaves]
                    /\ UNCHANGED <<pc, raised, result>>
               ELSE /\ WaitRaise(Exc(ms.err, "wait_for_state"))
                    /\ UNCHANGED cluster
          ELSE /\ WaitRaise(Exc("KeyboardInterrupt", "wait_for_state"))
               /\ UNCHANGED cluster
    /\ UNCHANGED provVars
    /\ UNCHANGED <<cmd, spot_requests, pending_request_ids, cluster_instances,
                   have_groups, rule_index, detach_index, wait, yes, confirmed, calls>>
    /\ UNCHANGED <<image, block_device_mappings, other>>

\* ------------------------------------------------------ launch: rollback
\* An exception raised inside the except clause (659-693) leaves launch in
\* place of the one being handled.

\* 663-668: some described request is not active: cancel all the requests
RollbackCancel ==
    /\ pc = "r_start"
    /\ spot_requests # <<>>
    /\ \E r \in Range(spot_requests) : r.state # "active"
    /\ Log(Call("cancel_spot_instance_requests", {r.id : r \in Range(spot_requests)}))
    /\ \E outcome \in {"ok", "error"} :
          IF outcome = "ok"
          THEN /\ requests' = Cancelled({r.id : r \in Range(spot_requests)})
               /\ pc' = "r_describe"
               /\ UNCHANGED result
          ELSE /\ End(Exc("ClientError", "cancel_spot_instance_requests"))
               /\ UNCHANGED requests
    /\ UNCHANGED <<instances, groups, rules>>
    /\ UNCHANGED <<cmd, cluster, spot_requests, pending_request_ids, cluster_instances,
                   have_groups, rule_index, detach_index, wait, raised, yes, confirmed>>
    /\ UNCHANGED <<image, block_device_mappings, other>>

\* 663-665: every described request is active, or there is no spot request
RollbackNoCancel ==
    /\ pc = "r_start"
    /\ \A r \in Range(spot_requests) : r.state = "active"
    /\ pc' = IF spot_requests # <<>> THEN "r_describe" ELSE "r_confirm"
    /\ UNCHANGED provVars
    /\ UNCHANGED <<cmd, cluster, spot_requests, pending_request_ids, cluster_instances,
                   have_groups, rule_index, detach_index, wait, raised, yes, confirmed,
                   result, calls>>
    /\ UNCHANGED <<image, block_device_mappings, other>>

\* 672-674: [r['InstanceId'] for r in spot_requests if 'InstanceId' in r]
granted_instance_ids(described) ==
    {r.id : r \in {x \in Range(described) : x.has_instance}}

\* 670-677: the requests are described again; the instances they were
\* granted replace cluster_instances
RollbackDescribe ==
    /\ pc = "r_describe"
    /\ \E outcome \in {"ok", "error"} :
          IF outcome = "ok"
          THEN LET described == [k \in 1..Len(spot_requests) |->
                                    SnapRequest(spot_requests[k].id)]
                   instance_ids == granted_instance_ids(described)
               IN  /\ spot_requests' = Kept(described)
                   /\ cluster_instances' =
                          IF instance_ids # {}
                          THEN [k \in 1..Cardinality(instance_ids) |->
                                   Snap(SetToSeq(instance_ids)[k])]
                          ELSE cluster_instances
                   /\ pc' = "r_confirm"
                   /\ UNCHANGED result
          ELSE /\ End(Exc("ClientError", "describe_spot_instance_requests"))
               /\ UNCHANGED <<spot_requests, cluster_instances>>
    /\ UNCHANGED provVars
    /\ UNCHANGED <<cmd, cluster, pending_request_ids, have_groups, rule_index,
                   detach_index, wait, raised, yes, confirmed, calls>>
    /\ UNCHANGED <<image, block_device_mappings, other>>

\* 679-687: the confirmation, unless assume_yes; the prompt can be aborted
RollbackConfirm ==
    /\ pc = "r_confirm"
    /\ IF cluster_instances = <<>>
       THEN pc' = "r_raise" /\ UNCHANGED <<yes, confirmed, result>>
       ELSE IF cmd.assume_yes
       THEN pc' = "r_terminate" /\ confirmed' = TRUE /\ UNCHANGED <<yes, result>>
       ELSE \E answer \in {"yes", "no", "abort"} :
               CASE answer = "yes" ->
                      pc' = "r_terminate" /\ yes' = TRUE /\ confirmed' = TRUE
                      /\ UNCHANGED result
                 [] answer = "no" ->
                      pc' = "r_raise" /\ yes' = FALSE /\ UNCHANGED <<confirmed, result>>
                 [] answer = "abort" ->
                      End(Exc("Abort", "confirm")) /\ UNCHANGED <<yes, confirmed>>
    /\ UNCHANGED provVars
    /\ UNCHANGED <<cmd, cluster, spot_requests, pending_request_ids, cluster_instances,
                   have_groups, rule_index, detach_index, wait, raised, calls>>
    /\ UNCHANGED <<image, block_device_mappings, other>>

\* faulty variant of RollbackTerminate: the cleanup takes the cluster group
\* and its rules with it
RollbackTerminateAndCleanup ==
    /\ pc = "r_terminate"
    /\ Log(Call("terminate", SnapIds(cluster_instances)))
    /\ \E outcome \in {"ok", "error"} :
          IF outcome = "ok"
          THEN /\ instances' = Terminated(SnapIds(cluster_instances))
               /\ groups' = groups \ {ClusterGroup(cmd.name)}
               /\ rules' = {r \in rules : r[1] # ClusterGroup(cmd.name)}
               /\ pc' = "r_raise"
               /\ UNCHANGED result
          ELSE /\ End(Exc("ClientError", "terminate"))
               /\ UNCHANGED <<instances, groups, rules>>
    /\ UNCHANGED requests
    /\ UNCHANGED <<cmd, cluster, spot_requests, pending_request_ids, cluster_instances,
                   have_groups, rule_index, detach_index, wait, raised, yes, confirmed>>
    /\ UNCHANGED <<image, block_device_mappings, other>>

\* 688-691: one terminate call for cluster_instances
RollbackTerminate ==
    /\ pc = "r_terminate"
    /\ Log(Call("terminate", SnapIds(cluster_instances)))
    /\ \E outcome \in {"ok", "error"} :
          IF outcome = "ok"
          THEN /\ instances' = Terminated(SnapIds(cluster_instances))
               /\ pc' = "r_raise"
               /\ UNCHANGED result
          ELSE /\ End(Exc("ClientError", "terminate"))
               /\ UNCHANGED instances
    /\ UNCHANGED <<groups, rules, requests>>
    /\ UNCHANGED <<cmd, cluster, spot_requests, pending_request_ids, cluster_instances,
                   have_groups, rule_index, detach_index, wait, raised, yes, confirmed>>
    /\ UNCHANGED <<image, block_device_mappings, other>>

\* 693: the exception being handled is raised again
RollbackRaise ==
    /\ pc = "r_raise"
    /\ End(raised)
    /\ UNCHANGED provVars
    /\ UNCHANGED <<cmd, cluster, spot_requests, pending_request_ids, cluster_instances,
                   have_groups, rule_index, detach_index, wait, raised, yes, confirmed,
                   calls>>
    /\ UNCHANGED <<image, block_device_mappings, other>>

\* ----------------------------------------- commands on an existing cluster
Methods == {"start", "stop", "destroy", "run_command", "copy_file"}

\* the caller gets the cluster with get_cluster (696-704) and calls the method
MethodBegin(op, name) ==
    /\ pc = "idle"
    /\ cmd' = [op |-> op, name |-> name, num_slaves |-> 0, spot |-> FALSE,
               assume_yes |-> FALSE]
    /\ LET r == get_cluster(name) IN
          IF r.ok
          THEN /\ cluster' = r.cluster
               /\ pc' = op
               /\ UNCHANGED result
          ELSE /\ End(Exc(r.err, "get_cluster"))
               /\ UNCHANGED cluster
    /\ UNCHANGED provVars
    /\ UNCHANGED <<spot_requests, pending_request_ids, cluster_instances, have_groups,
                   rule_index, detach_index, wait, raised, yes, confirmed, calls>>
    /\ UNCHANGED <<image, block_device_mappings, other>>

\* start_check (172-178): the exception it raises, or None
start_check(c) ==
    IF ClusterState(c) = "running" THEN Exc("NothingToDo", "start")
    ELSE IF ClusterState(c) # "stopped" THEN Exc("ClusterInvalidState", "start")
    ELSE None

\* faulty variant of stop_check: an inconsistent cluster passes the gate
stop_check_lenient(c) ==
    IF ClusterState(c) = "stopped" THEN Exc("NothingToDo", "stop")
    ELSE IF ClusterState(c) \notin {"running", "inconsistent"}
    THEN Exc("ClusterInvalidState", "stop")
    ELSE None

\* stop_check (194-200)
stop_check(c) ==
    IF ClusterState(c) = "stopped" THEN Exc("NothingToDo", "stop")
    ELSE IF ClusterState(c) # "running" THEN Exc("ClusterInvalidState", "stop")
    ELSE None

\* run_command_check (213-217)
run_command_check(c) ==
    IF ClusterState(c) # "running" THEN Exc("ClusterInvalidState", "run-command")
    ELSE None

\* faulty variant of copy_file_check: only a stopped cluster is rejected
copy_file_check_stopped_only(c) ==
    IF ClusterState(c) = "stopped" THEN Exc("ClusterInvalidState", "copy-file")
    ELSE None

\* copy_file_check (228-232)
copy_file_check(c) ==
    IF ClusterState(c) # "running" THEN Exc("ClusterInvalidState", "copy-file")
    ELSE None

\* 183: start begins with start_check
StartCheck ==
    /\ pc = "start"
    /\ IF start_check(cluster) # None
       THEN End(start_check(cluster))
       ELSE pc' = "start_call" /\ UNCHANGED result
    /\ UNCHANGED provVars
    /\ UNCHANGED <<cmd, cluster, spot_requests, pending_request_ids, cluster_instances,
                   have_groups, rule_index, detach_index, wait, raised, yes, confirmed,
                   calls>>
    /\ UNCHANGED <<image, block_device_mappings, other>>

\* 184-188: the batched provider start call, then wait_for_state('running')
StartCall ==
    /\ pc = "start_call"
    /\ \E outcome \in {"ok", "error"} :
          IF outcome = "ok"
          THEN /\ instances' = Started(ClusterIds(cluster))
               /\ wait' = [target |-> "running", ret |-> "start_hook"]
               /\ calls' = calls \o <<Call("start", ClusterIds(cluster)),
                                      Call("wait_for_state", ClusterIds(cluster))>>
               /\ pc' = "wfs"
               /\ UNCHANGED result
          ELSE /\ Log(Call("start", ClusterIds(cluster)))
               /\ End(Exc("ClientError", "start"))
               /\ UNCHANGED <<instances, wait>>
    /\ UNCHANGED <<groups, rules, requests>>
    /\ UNCHANGED <<cmd, cluster, spot_requests, pending_request_ids, cluster_instances,
                   have_groups, rule_index, detach_index, raised, yes, confirmed>>
    /\ UNCHANGED <<image, block_device_mappings, other>>

\* 190-192: super().start(), the generic start hook
StartHook ==
    /\ pc = "start_hook"
    /\ Log(Call("hook_start", {}))
    /\ \E outcome \in {"ok", "error"} :
          End(IF outcome = "ok" THEN Ok ELSE Exc("Exception", "hook_start"))
    /\ UNCHANGED provVars
    /\ UNCHANGED <<cmd, cluster, spot_requests, pending_request_ids, cluster_instances,
                   have_groups, rule_index, detach_index, wait, raised, yes, confirmed>>
    /\ UNCHANGED <<image, block_device_mappings, other>>

\* faulty variant of StopCheck: the generic stop hook is not called before
\* the provider call
StopCheckThenCall ==
    /\ pc = "stop"
    /\ IF stop_check(cluster) # None
       THEN End(stop_check(cluster))
       ELSE pc' = "stop_call" /\ UNCHANGED result
    /\ UNCHANGED provVars
    /\ UNCHANGED <<cmd, cluster, spot_requests, pending_request_ids, cluster_instances,
                   have_groups, rule_index, detach_index, wait, raised, yes, confirmed,
                   calls>>
    /\ UNCHANGED <<image, block_device_mappings, other>>

\* 204: stop begins with stop_check
StopCheck ==
    /\ pc = "stop"
    /\ IF stop_check(cluster) # None
       THEN End(stop_check(cluster))
       ELSE pc' = "stop_hook" /\ UNCHANGED result
    /\ UNCHANGED provVars
    /\ UNCHANGED <<cmd, cluster, spot_requests, pending_request_ids, cluster_instances,
                   have_groups, rule_index, detach_index, wait, raised, yes, confirmed,
                   calls>>
    /\ UNCHANGED <<image, block_device_mappings, other>>

\* 205: super().stop(), the generic stop hook
StopHook ==
    /\ pc = "stop_hook"
    /\ Log(Call("hook_stop", {}))
    /\ \E outcome \in {"ok", "error"} :
          IF outcome = "ok"
          THEN pc' = "stop_call" /\ UNCHANGED result
          ELSE End(Exc("Exception", "hook_stop"))
    /\ UNCHANGED provVars
    /\ UNCHANGED <<cmd, cluster, spot_requests, pending_request_ids, cluster_instances,
                   have_groups, rule_index, detach_index, wait, raised, yes, confirmed>>
    /\ UNCHANGED <<image, block_device_mappings, other>>

\* 207-211: the batched provider stop call, then wait_for_state('stopped')
StopCall ==
    /\ pc = "stop_call"
    /\ \E outcome \in {"ok", "error"} :
          IF outcome = "ok"
          THEN /\ instances' = Stopped(ClusterIds(cluster))
               /\ wait' = [target |-> "stopped", ret |-> "stop_return"]
               /\ calls' = calls \o <<Call("stop", ClusterIds(cluster)),
                                      Call("wait_for_state", ClusterIds(cluster))>>
               /\ pc' = "wfs"
               /\ UNCHANGED result
          ELSE /\ Log(Call("stop", ClusterIds(cluster)))
               /\ End(Exc("ClientError", "stop"))
               /\ UNCHANGED <<instances, wait>>
    /\ UNCHANGED <<groups, rules, requests>>
    /\ UNCHANGED <<cmd, cluster, spot_requests, pending_request_ids, cluster_instances,
                   have_groups, rule_index, detach_index, raised, yes, confirmed>>
    /\ UNCHANGED <<image, block_device_mappings, other>>

\* 211: wait_for_state('stopped') has returned, stop returns
StopReturn ==
    /\ pc = "stop_return"
    /\ End(Ok)
    /\ UNCHANGED provVars
    /\ UNCHANGED <<cmd, cluster, spot_requests, pending_request_ids, cluster_instances,
                   have_groups, rule_index, detach_index, wait, raised, yes, confirmed,
                   calls>>
    /\ UNCHANGED <<image, block_device_mappings, other>>

\* 221 / 236: run_command and copy_file begin with their check
RemoteCheck ==
    /\ pc \in {"run_command", "copy_file"}
    /\ LET e == IF pc = "run_command" THEN run_command_check(cluster)
                ELSE copy_file_check(cluster)
       IN  IF e # None THEN End(e)
           ELSE pc' = "remote" /\ UNCHANGED result
    /\ UNCHANGED provVars
    /\ UNCHANGED <<cmd, cluster, spot_requests, pending_request_ids, cluster_instances,
                   have_groups, rule_index, detach_index, wait, raised, yes, confirmed,
                   calls>>
    /\ UNCHANGED <<image, block_device_mappings, other>>

\* 222-226 / 237-242: super().run_command() / super().copy_file(), the
\* remote execution service
RemoteExec ==
    /\ pc = "remote"
    /\ Log(Call("remote_exec", ClusterIds(cluster)))
    /\ \E outcome \in {"ok", "error"} :
          End(IF outcome = "ok" THEN Ok ELSE Exc("Exception", "remote_exec"))
    /\ UNCHANGED provVars
    /\ UNCHANGED <<cmd, cluster, spot_requests, pending_request_ids, cluster_instances,
                   have_groups, rule_index, detach_index, wait, raised, yes, confirmed>>
    /\ UNCHANGED <<image, block_device_mappings, other>>

\* --------------------------------------------------------------- destroy
\* 137-138: destroy_check() and super().destroy(), the generic teardown hook
DestroyHook ==
    /\ pc = "destroy"
    /\ Log(Call("hook_destroy", {}))
    /\ \E outcome \in {"ok", "error"} :
          IF outcome = "ok"
          THEN pc' = "d_base" /\ UNCHANGED result
          ELSE End(Exc("Exception", "hook_destroy"))
    /\ UNCHANGED provVars
    /\ UNCHANGED <<cmd, cluster, spot_requests, pending_request_ids, cluster_instances,
                   have_groups, rule_index, detach_index, wait, raised, yes, confirmed>>
    /\ UNCHANGED <<image, block_device_mappings, other>>

\* 142-147: the base group is looked up; [0] of an empty list raises IndexError
DestroyLookupBase ==
    /\ pc = "d_base"
    /\ IF BaseGroup \in groups
       THEN pc' = "d_detach" /\ detach_index' = 1 /\ UNCHANGED result
       ELSE End(Exc("IndexError", "flintrock_base_group")) /\ UNCHANGED detach_index
    /\ UNCHANGED provVars
    /\ UNCHANGED <<cmd, cluster, spot_requests, pending_request_ids, cluster_instances,
                   have_groups, rule_index, wait, raised, yes, confirmed, calls>>
    /\ UNCHANGED <<image, block_device_mappings, other>>

\* faulty variant of detached_instances: the loop leaves the master out
detached_slaves_only(c) == c.slaves

\* 155: the instances the loop goes through
detached_instances(c) == ClusterInstances(c)

\* 155-157: one iteration of the loop: the instance is left in the base group
\* alone.  The provider refuses to modify a terminated instance.
DestroyDetach ==
    /\ pc = "d_detach"
    /\ detach_index <= Len(detached_instances(cluster))
    /\ LET instance == detached_instances(cluster)[detach_index] IN
       /\ Log(Call("modify_attribute", {instance.id}))
       /\ \E outcome \in {"ok", "error"} :
             IF outcome = "ok" /\ instances[instance.id].state # "terminated"
             THEN /\ instances' = [instances EXCEPT ![instance.id].groups = {BaseGroup}]
                  /\ detach_index' = detach_index + 1
                  /\ pc' = IF detach_index = Len(detached_instances(cluster))
                           THEN "d_delete" ELSE "d_detach"
                  /\ UNCHANGED result
             ELSE /\ End(Exc("ClientError", "modify_attribute"))
                  /\ UNCHANGED <<instances, detach_index>>
    /\ UNCHANGED <<groups, rules, requests>>
    /\ UNCHANGED <<cmd, cluster, spot_requests, pending_request_ids, cluster_instances,
                   have_groups, rule_index, wait, raised, yes, confirmed>>
    /\ UNCHANGED <<image, block_device_mappings, other>>

\* 160-166: the cluster group is looked up and deleted.  The provider
\* refuses to delete a group an instance is still a member of.
DestroyDeleteGroup ==
    /\ pc = "d_delete"
    /\ LET cluster_group == ClusterGroup(cluster.name) IN
       IF cluster_group \notin groups
       THEN /\ End(Exc("IndexError", "cluster_group"))
            /\ UNCHANGED <<groups, rules, calls>>
       ELSE /\ Log(Call("delete_security_group", {}))
            /\ \E outcome \in {"ok", "error"} :
                  IF outcome = "ok" /\ ~\E i \in Ids : cluster_group \in instances[i].groups
                  THEN /\ groups' = groups \ {cluster_group}
                       /\ rules' = {r \in rules : r[1] # cluster_group}
                       /\ pc' = "d_terminate"
                       /\ UNCHANGED result
                  ELSE /\ End(Exc("ClientError", "delete_security_group"))
                       /\ UNCHANGED <<groups, rules>>
    /\ UNCHANGED <<instances, requests>>
    /\ UNCHANGED <<cmd, cluster, spot_requests, pending_request_ids, cluster_instances,
                   have_groups, rule_index, detach_index, wait, raised, yes, confirmed>>
    /\ UNCHANGED <<image, block_device_mappings, other>>

\* 168-170: one terminate call for all the instances
DestroyTerminate ==
    /\ pc = "d_terminate"
    /\ Log(Call("terminate", ClusterIds(cluster)))
    /\ \E outcome \in {"ok", "error"} :
          IF outcome = "ok"
          THEN /\ instances' = Terminated(ClusterIds(cluster))
               /\ End(Ok)
          ELSE /\ End(Exc("ClientError", "terminate"))
               /\ UNCHANGED instances
    /\ UNCHANGED <<groups, rules, requests>>
    /\ UNCHANGED <<cmd, cluster, spot_requests, pending_request_ids, cluster_instances,
                   have_groups, rule_index, detach_index, wait, raised, yes, confirmed>>
    /\ UNCHANGED <<image, block_device_mappings, other>>

\* ------------------------------------------------------------- the system
Provider ==
    \/ \E i \in Ids : InstanceAdvance(i)
    \/ \E i \in Ids : SpotGrant(i)
    \/ \E i \in Ids, code \in FailureCodes : SpotFail(i, code)

Launch ==
    \/ \E name \in Names : LaunchBegin(name)
    \/ LaunchResolveVpc
    \/ LaunchPreExistenceCheck
    \/ SgLookup
    \/ SgCreateBase
    \/ SgClientIps
    \/ SgAuthorizeClientRule
    \/ SgCreateCluster
    \/ SgAuthorizeSelf
    \/ LaunchBlockDevices
    \/ \E num_slaves \in 1..MaxSlaves, assume_yes \in BOOLEAN :
          LaunchCreateInstances(num_slaves, assume_yes)
    \/ \E num_slaves \in 1..MaxSlaves, assume_yes \in BOOLEAN :
          LaunchRequestSpot(num_slaves, assume_yes)
    \/ LaunchSpotPoll
    \/ LaunchSpotCollect
    \/ LaunchSettle
    \/ LaunchTagMaster
    \/ LaunchTagSlaves
    \/ LaunchProvision
    \/ RollbackCancel
    \/ RollbackNoCancel
    \/ RollbackDescribe
    \/ RollbackConfirm
    \/ RollbackTerminate
    \/ RollbackRaise

Method ==
    \/ \E op \in Methods, name \in Names : MethodBegin(op, name)
    \/ WaitReturn
    \/ WaitRefresh
    \/ StartCheck
    \/ StartCall
    \/ StartHook
    \/ StopCheck
    \/ StopHook
    \/ StopCall
    \/ StopReturn
    \/ RemoteCheck
    \/ RemoteExec
    \/ DestroyHook
    \/ DestroyLookupBase
    \/ DestroyDetach
    \/ DestroyDeleteGroup
    \/ DestroyTerminate
    \/ Return

Next == Provider \/ Launch \/ Method

Spec == Init /\ [][Next]_vars

\* ---------------------------------------------------------------- fairness
\* The process that runs wait_for_state is not suspended for ever: the loop
\* of 126-134 sleeps three seconds and runs again, so a refresh that would
\* change the snapshot, and the return once the condition is false, are
\* taken eventually.  Nothing is assumed of the provider, and no interrupt
\* is ever bound to come.
SpecLive == Spec /\ WF_vars(WaitRefresh /\ pc' = "wfs") /\ WF_vars(WaitReturn)

\* ------------------------------------------------- two client processes
\* launch is a command of a command-line program: two launches are two
\* operating-system processes that share nothing but the provider.  The
\* process at its step has its frame in the client variables, the frame of
\* the other one is kept in `other`; Switch passes the turn.
Switch ==
    /\ other' = Frame
    /\ pc' = other.pc
    /\ cmd' = other.cmd
    /\ cluster' = other.cluster
    /\ spot_requests' = other.spot_requests
    /\ pending_request_ids' = other.pending_request_ids
    /\ cluster_instances' = other.cluster_instances
    /\ have_groups' = other.have_groups
    /\ rule_index' = other.rule_index
    /\ detach_index' = other.detach_index
    /\ wait' = other.wait
    /\ raised' = other.raised
    /\ yes' = other.yes
    /\ confirmed' = other.confirmed
    /\ result' = other.result
    /\ calls' = other.calls
    /\ image' = other.image
    /\ block_device_mappings' = other.block_device_mappings
    /\ UNCHANGED provVars

\* the image both launches are given
RaceImage ==
    [root_device_type |-> "ebs", root_device_name |-> "/dev/sda1",
     block_device_mappings |-> <<EbsDevice("/dev/sda1", 8, "standard", FALSE)>>]

\* on-demand launches of the one name in Names, one slave each, cleanup
\* pre-authorized
RaceLaunch ==
    \/ \E name \in Names : LaunchBegin(name)
    \/ LaunchResolveVpc
    \/ LaunchPreExistenceCheck
    \/ SgLookup
    \/ SgCreateBase
    \/ SgClientIps
    \/ SgAuthorizeClientRule
    \/ SgCreateCluster
    \/ SgAuthorizeSelf
    \/ PlanBlockDevices({RaceImage})
    \/ LaunchCreateInstances(1, TRUE)
    \/ LaunchSettle
    \/ LaunchTagMaster
    \/ LaunchTagSlaves
    \/ WaitReturn
    \/ WaitRefresh
    \/ LaunchProvision
    \/ RollbackNoCancel
    \/ RollbackConfirm
    \/ RollbackTerminate
    \/ RollbackRaise
    \/ Return

NextRace == (\E i \in Ids : InstanceAdvance(i)) \/ RaceLaunch \/ Switch

SpecRace == Init /\ [][NextRace]_vars

\* ------------------------------------------------ tags of other actors
\* The tags of an instance are the provider's, not the cluster's: while a
\* command waits, a describe can give an instance with tags among which the
\* flintrock-role tag is not (not yet visible after create_tags, or removed
\* by another actor of the account that tags instances as well).
RoleTagHidden(i) ==
    /\ pc = "wfs"
    /\ i \in ClusterIds(cluster)
    /\ instances[i].role \in {"master", "slave"}
    /\ instances' = [instances EXCEPT ![i].role = "other"]
    /\ UNCHANGED <<groups, rules, requests>>
    /\ UNCHANGED cliVars
    /\ UNCHANGED other

NextTags == Next \/ \E i \in Ids : RoleTagHidden(i)

SpecTags == Init /\ [][NextTags]_vars

\* ------------------------------------------- discovery on an inventory
\* get_clusters is a function of the provider's inventory alone.  This
\* specification starts it on every inventory of at most MaxInventory
\* instances of the clusters in DiscoveryNames, instances that are not what a
\* launch leaves behind included (no master, two masters, no slaves, tags
\* without a role, no tags at all).
MaxInventory == 3

DiscoveryNames == {"a", "b"}

InventoryInstances ==
    {[state |-> "absent", groups |-> {}, role |-> "none"]} \cup
    {[state |-> st, groups |-> {BaseGroup, ClusterGroup(n)}, role |-> r] :
         st \in {"running", "stopped"}, n \in DiscoveryNames,
         r \in {"master", "slave", "none", "other"}}

InitDiscovery ==
    /\ instances \in {f \in [Ids -> InventoryInstances] :
                         \A i \in Ids : i > MaxInventory => f[i].state = "absent"}
    /\ groups = {BaseGroup} \cup {ClusterGroup(n) : n \in DiscoveryNames}
    /\ rules = {<<BaseGroup, ClientRule(k)>> : k \in 1..NumClientRules} \cup
               {<<ClusterGroup(n), SelfRule>> : n \in DiscoveryNames}
    /\ requests = [i \in Ids |-> NoRequest]
    /\ pc = "idle"
    /\ cmd = NoCmd
    /\ cluster = NoCluster
    /\ spot_requests = <<>>
    /\ pending_request_ids = {}
    /\ cluster_instances = <<>>
    /\ have_groups = {}
    /\ rule_index = 1
    /\ detach_index = 1
    /\ wait = NoWait
    /\ raised = None
    /\ yes = FALSE
    /\ confirmed = FALSE
    /\ result = None
    /\ calls = <<>>
    /\ image = NoImage
    /\ block_device_mappings = <<>>
    /\ other = IdleFrame

\* 707-750: one call of get_clusters; cmd.name holds the cluster_names
\* argument, result what the call raised (with the name its message gives)
Discover(cluster_names) ==
    /\ pc = "idle"
    /\ cmd' = [NoCmd EXCEPT !.op = "get_clusters", !.name = cluster_names]
    /\ LET r == get_clusters(cluster_names) IN
          End(IF r.ok THEN Ok
              ELSE [Exc(r.err, "get_clusters") EXCEPT
                        !.reasons = IF r.missing = "" THEN {} ELSE {r.missing}])
    /\ UNCHANGED provVars
    /\ UNCHANGED <<cluster, spot_requests, pending_request_ids, cluster_instances,
                   have_groups, rule_index, detach_index, wait, raised, yes, confirmed,
                   calls>>
    /\ UNCHANGED <<image, block_device_mappings, other>>

Discovery == \E cluster_names \in SUBSET DiscoveryNames : Discover(cluster_names)

NextDiscovery == Discovery \/ Return

SpecDiscovery == InitDiscovery /\ [][NextDiscovery]_vars

\* =========================================================== properties
\* launch has ended and its frame is still there
LaunchEnded == pc = "return" /\ cmd.op = "launch"

Issued(op) == \E k \in 1..Len(calls) : calls[k].op = op

\* the operations of the calls of the current command, in order
CallOps == [k \in 1..Len(calls) |-> calls[k].op]

IsPrefix(s, t) == Len(s) <= Len(t) /\ \A k \in 1..Len(s) : s[k] = t[k]

\* the ids of the instances / spot requests the acquisition call of the
\* current launch asked for
AttemptIds ==
    UNION {calls[k].ids : k \in {j \in 1..Len(calls) :
              calls[j].op \in {"create_instances", "request_spot_instances"}}}

Survives(i) == instances[i].state \notin {"absent", "shutting-down", "terminated"}

\* ---------------------------------------------------------------- C1
\* C1: when launch(name, num_slaves = N) has completed successfully, on the
\* on-demand and on the spot path, get_cluster(name) finds exactly one
\* cluster; it has one master (tagged master) and exactly N slaves (tagged
\* slave), N + 1 distinct instances, and its aggregate state is 'running'.
C1_LaunchThenDiscover ==
    (LaunchEnded /\ result = Ok) =>
        LET r == get_clusters({cmd.name}) IN
        /\ r.ok
        /\ Cardinality(r.clusters) = 1
        /\ get_cluster(cmd.name).ok
        /\ \A c \in r.clusters :
              /\ get_cluster(cmd.name).cluster = c
              /\ c.name = cmd.name
              /\ instances[c.master.id].role = "master"
              /\ Len(c.slaves) = cmd.num_slaves
              /\ \A k \in 1..Len(c.slaves) : instances[c.slaves[k].id].role = "slave"
              /\ Cardinality(ClusterIds(c)) = cmd.num_slaves + 1
              /\ ClusterState(c) = "running"

\* ---------------------------------------------------------------- C2
\* C2: when launch ends after a failure or interrupt from the acquisition
\* step onward, and cleanup was pre-authorized (assume_yes) or confirmed at
\* the prompt, a terminate call has been issued that names every instance
\* created or granted in this launch attempt.
C2_RollbackTerminatesAll ==
    (LaunchEnded /\ raised # None /\ (cmd.assume_yes \/ yes)) =>
        \A i \in AttemptIds :
            instances[i].state # "absent" =>
                \E k \in 1..Len(calls) : calls[k].op = "terminate" /\ i \in calls[k].ids

\* ---------------------------------------------------------------- C3
\* C3: when a poll of a spot launch has observed a failed request, launch
\* ends with the Error that reports the distinct failure reasons; no
\* instance was tagged, no wait for 'running' was started, the provisioner
\* was not called; no request of the attempt is still open; and when the
\* cleanup was confirmed no instance granted to a request of the attempt
\* survives.
C3_SpotFailureAborts ==
    (LaunchEnded /\ raised.at = "spot_request_failed") =>
        /\ result.type = "Error"
        /\ result.reasons # {}
        /\ result.reasons \subseteq
               {requests[i].code : i \in {j \in AttemptIds : requests[j].state = "failed"}}
        /\ ~Issued("create_tags_master")
        /\ ~Issued("create_tags_slave")
        /\ ~Issued("wait_for_state")
        /\ ~Issued("provision_cluster")
        /\ \A i \in AttemptIds : requests[i].state # "open"
        /\ confirmed => \A i \in AttemptIds : ~Survives(i)

\* ---------------------------------------------------------------- C4
\* C4: whenever launch entered its rollback, the failure launch ends with is
\* the failure that triggered the rollback.
C4_OriginalFailureReported ==
    (LaunchEnded /\ raised # None) => result = raised

\* ---------------------------------------------------------------- C5
\* C5: when the pre-existence check of launch finds a cluster with the
\* requested name, launch ends there with ClusterAlreadyExists; up to and
\* including that step it has made no call that creates or changes a
\* security group, a spot request or an instance, and the provider's state
\* is as it was.
C5_ExistingClusterUntouched ==
    /\ []((LaunchEnded /\ result.type = "ClusterAlreadyExists") =>
              (calls = <<>> /\ raised = None))
    /\ [][(pc = "l_check" /\ get_cluster(cmd.name).ok) =>
              /\ pc' = "return"
              /\ result' = Exc("ClusterAlreadyExists", "launch")
              /\ calls' = <<>>
              /\ UNCHANGED provVars]_vars
    /\ [][pc = "l_vpc" => (calls' = <<>> /\ UNCHANGED provVars)]_vars

\* launch has ended with ClusterAlreadyExists over a running cluster
C5_Witness ==
    /\ LaunchEnded
    /\ result.type = "ClusterAlreadyExists"
    /\ get_cluster(cmd.name).ok
    /\ ClusterState(get_cluster(cmd.name).cluster) = "running"

\* ---------------------------------------------------------------- C6
\* C6: start on a cluster whose aggregate state is not 'stopped' ends at its
\* check, with NothingToDo when the state is 'running' and with
\* ClusterInvalidState otherwise; stop on a cluster whose aggregate state is
\* not 'running' ends at its check, with NothingToDo when the state is
\* 'stopped' and with ClusterInvalidState otherwise ('inconsistent'
\* included).  In each case no provider start/stop call is issued, no wait
\* is started, the generic hook is not called and the provider's state is
\* unchanged.
C6_StartStopGated ==
    /\ [][(pc = "start" /\ ClusterState(cluster) # "stopped") =>
              /\ pc' = "return"
              /\ result' = Exc(IF ClusterState(cluster) = "running"
                               THEN "NothingToDo" ELSE "ClusterInvalidState", "start")
              /\ calls' = <<>>
              /\ UNCHANGED provVars]_vars
    /\ [][(pc = "stop" /\ ClusterState(cluster) # "running") =>
              /\ pc' = "return"
              /\ result' = Exc(IF ClusterState(cluster) = "stopped"
                               THEN "NothingToDo" ELSE "ClusterInvalidState", "stop")
              /\ calls' = <<>>
              /\ UNCHANGED provVars]_vars
    /\ []((pc = "return" /\ cmd.op \in {"start", "stop"}
              /\ result.type \in {"NothingToDo", "ClusterInvalidState"}) => calls = <<>>)

\* stop on an inconsistent cluster has been rejected
C6_Witness ==
    /\ pc = "return"
    /\ cmd.op = "stop"
    /\ ClusterState(cluster) = "inconsistent"
    /\ result = Exc("ClusterInvalidState", "stop")

\* ---------------------------------------------------------------- C7
\* C7: run-command and copy-file on a cluster whose aggregate state is not
\* 'running' ('inconsistent' included) end at their check with
\* ClusterInvalidState and without a call of the remote execution service;
\* on a 'running' cluster they go on to it.  Whenever the remote execution
\* service has been called, every instance of the cluster is 'running', in
\* the cluster's snapshot and at the provider.
C7_RemoteOnlyWhenRunning ==
    /\ [][(pc \in {"run_command", "copy_file"} /\ ClusterState(cluster) # "running") =>
              /\ pc' = "return"
              /\ result'.type = "ClusterInvalidState"
              /\ calls' = <<>>]_vars
    /\ [][(pc \in {"run_command", "copy_file"} /\ ClusterState(cluster) = "running") =>
              pc' = "remote"]_vars
    /\ [](Issued("remote_exec") =>
              /\ cmd.op \in {"run_command", "copy_file"}
              /\ \A x \in Range(ClusterInstances(cluster)) :
                     x.state = "running" /\ instances[x.id].state = "running")

\* copy-file on an inconsistent cluster has been rejected
C7_Witness ==
    /\ pc = "return"
    /\ cmd.op = "copy_file"
    /\ ClusterState(cluster) = "inconsistent"
    /\ result = Exc("ClusterInvalidState", "copy-file")
    /\ calls = <<>>

\* ---------------------------------------------------------------- C8
\* C8: the calls of destroy are, in this order: the generic teardown hook,
\* one modify_attribute per instance of the cluster (master first, then the
\* slaves), one delete of the cluster group, one terminate naming all the
\* instances.  When the delete is about to be issued and from then on, every
\* instance of the cluster is a member of no group but the base group.
C8_DestroyOrder ==
    cmd.op = "destroy" =>
        LET n == Len(ClusterInstances(cluster))
            expected == <<"hook_destroy">> \o [k \in 1..n |-> "modify_attribute"]
                            \o <<"delete_security_group", "terminate">>
        IN  /\ IsPrefix(CallOps, expected)
            /\ \A k \in 1..Len(calls) :
                   /\ calls[k].op = "modify_attribute" =>
                          calls[k].ids = {ClusterInstances(cluster)[k - 1].id}
                   /\ calls[k].op = "terminate" => calls[k].ids = ClusterIds(cluster)
            /\ (pc = "d_delete" \/ Issued("delete_security_group")) =>
                   \A i \in ClusterIds(cluster) :
                       /\ ClusterGroup(cluster.name) \notin instances[i].groups
                       /\ instances[i].groups \subseteq {BaseGroup}
            /\ (pc = "return" /\ result = Ok) =>
                   /\ Len(calls) = n + 3
                   /\ ClusterGroup(cluster.name) \notin groups

\* destroy of a cluster with two slaves has completed
C8_Witness ==
    /\ pc = "return"
    /\ cmd.op = "destroy"
    /\ result = Ok
    /\ Len(cluster.slaves) > 1

\* ---------------------------------------------------------------- C9
\* C9 (as claimed): start and stop make their calls in the same order: the
\* batched provider call, the wait for the target state, and after the wait
\* has returned the generic hook.
C9_SameOrder ==
    /\ cmd.op = "start" =>
           IsPrefix(CallOps, <<"start", "wait_for_state", "wait_returned", "hook_start">>)
    /\ cmd.op = "stop" =>
           IsPrefix(CallOps, <<"stop", "wait_for_state", "wait_returned", "hook_stop">>)

\* C9 (amended): start makes the batched provider start call, waits for
\* 'running' and calls the generic start hook after the wait has returned;
\* stop calls the generic stop hook first, then makes the batched provider
\* stop call and waits for 'stopped'.  Each provider call names all the
\* instances of the cluster.
C9_StartStopOrder ==
    /\ cmd.op = "start" =>
           /\ IsPrefix(CallOps, <<"start", "wait_for_state", "wait_returned", "hook_start">>)
           /\ (pc = "return" /\ result = Ok) => Len(calls) = 4
           /\ (wait # NoWait) => wait.target = "running"
    /\ cmd.op = "stop" =>
           /\ IsPrefix(CallOps, <<"hook_stop", "stop", "wait_for_state", "wait_returned">>)
           /\ (pc = "return" /\ result = Ok) => Len(calls) = 4
           /\ (wait # NoWait) => wait.target = "stopped"
    /\ \A k \in 1..Len(calls) :
           calls[k].op \in {"start", "stop"} => calls[k].ids = ClusterIds(cluster)

\* stop has completed
C9_Witness ==
    /\ pc = "return"
    /\ cmd.op = "stop"
    /\ result = Ok
    /\ CallOps = <<"hook_stop", "stop", "wait_for_state", "wait_returned">>

\* --------------------------------------------------------------- C10
\* C10: when wait_for_state(target) has returned, every instance the cluster
\* tracks (the master and all the slaves the wait began with) has exactly the
\* state target in the cluster's latest snapshot.
C10_WaitReturnsOnTarget ==
    (pc \in {"l_provision", "start_hook", "stop_return"}
        \/ (calls # <<>> /\ calls[Len(calls)].op = "wait_returned")) =>
        /\ \A x \in Range(ClusterInstances(cluster)) : x.state = wait.target
        /\ \E k \in 1..Len(calls) :
               calls[k].op = "wait_for_state" /\ calls[k].ids = ClusterIds(cluster)
        /\ calls[Len(calls)].ids = ClusterIds(cluster)

\* wait_for_state('stopped') has returned for a cluster with two slaves
C10_Witness ==
    /\ pc = "stop_return"
    /\ wait.target = "stopped"
    /\ Len(cluster.slaves) > 1

\* --------------------------------------------------------------- C11
\* C11: wait_for_state(target) on a cluster whose instances all have the
\* state target in the cluster's snapshot returns with its first step: it
\* makes no describe call (the loop body does not run), no call that changes
\* the provider, and the master and the slaves of the cluster are what they
\* were.  No step of wait_for_state changes the provider.
C11_WaitIdempotent ==
    /\ [][(pc = "wfs" /\ ~wait_condition(cluster, wait.target) /\ cliVars' # cliVars) =>
              /\ pc' = wait.ret
              /\ cluster' = cluster
              /\ UNCHANGED provVars]_vars
    /\ [][(pc = "wfs" /\ cliVars' # cliVars) => UNCHANGED provVars]_vars
    /\ []((pc = "l_provision" /\ \A x \in Range(cluster_instances) : x.state = "running") =>
              /\ cluster.master = cluster_instances[1]
              /\ cluster.slaves = Tail(cluster_instances))

\* the wait of a spot launch was entered with every instance already running
\* in the snapshot, and has returned
C11_Witness ==
    /\ pc = "l_provision"
    /\ \A x \in Range(cluster_instances) : x.state = "running"
    /\ calls[Len(calls)].op = "wait_returned"

\* --------------------------------------------------------------- C12
SgPositions ==
    {"sg_lookup", "sg_create_base", "sg_client_ips", "sg_client_rules",
     "sg_create_cluster", "sg_self"}

\* both groups of the cluster exist with every rule a complete provisioning
\* authorizes
SgProvisioned(name) ==
    /\ {BaseGroup, ClusterGroup(name)} \subseteq groups
    /\ \A k \in 1..NumClientRules : <<BaseGroup, ClientRule(k)>> \in rules
    /\ <<ClusterGroup(name), SelfRule>> \in rules

\* C12: get_or_create_ec2_security_groups invoked again for a name whose
\* groups an earlier invocation has provisioned completely finds both groups
\* by the lookup and creates none, leaves the groups and the authorized rules
\* as they are with every step, and the duplicate answers it gets to its
\* authorizations never make it raise: it ends early only through the
\* public-address lookup or a ClientError that is not the duplicate.
C12_SgIdempotent ==
    /\ [][(pc \in SgPositions /\ SgProvisioned(cmd.name)) =>
              /\ groups' = groups
              /\ rules' = rules
              /\ pc' = "return" =>
                    \/ result'.at = "checkip"
                    \/ /\ result'.at = "authorize_ingress"
                       /\ "InvalidPermission.Duplicate" \notin result'.reasons]_vars
    /\ []((pc \in SgPositions \ {"sg_lookup"} /\ SgProvisioned(cmd.name)) =>
              /\ have_groups = {BaseGroup, ClusterGroup(cmd.name)}
              /\ ~Issued("create_security_group"))
    /\ []((pc = "l_bdm" /\ ~Issued("create_security_group")) =>
              /\ have_groups = {BaseGroup, ClusterGroup(cmd.name)}
              /\ have_groups \subseteq groups)

\* the second invocation has had its twelve client rules answered with the
\* duplicate and is at the rule of the cluster group, which is there as well
C12_Witness ==
    /\ pc = "sg_self"
    /\ SgProvisioned(cmd.name)
    /\ Len(calls) = NumClientRules
    /\ \A k \in 1..Len(calls) : calls[k].op = "authorize_ingress"

\* --------------------------------------------------------------- C13
\* the instances of the inventory in the cluster group of a name
InGroup(cn) == {i \in Ids : ClusterGroup(cn) \in instances[i].groups}

\* the requested names that have no instance in the inventory
Absent(cluster_names) == {cn \in cluster_names : InGroup(cn) = {}}

\* C13: get_clusters with a non-empty list of names of which at least one
\* has no instance in the inventory raises ClusterNotFound, the message
\* gives one of the names without instance, and no cluster is returned, not
\* for the requested names that have instances either.
C13_MissingNameFails ==
    /\ \A cluster_names \in SUBSET DiscoveryNames :
          (cluster_names # {} /\ Absent(cluster_names) # {}) =>
              LET r == get_clusters(cluster_names) IN
                  /\ ~r.ok
                  /\ r.err = "ClusterNotFound"
                  /\ r.missing \in Absent(cluster_names)
                  /\ r.clusters = {}
    /\ (pc = "return" /\ cmd.op = "get_clusters" /\ Absent(cmd.name) # {}) =>
          /\ result.type = "ClusterNotFound"
          /\ result.reasons # {}
          /\ result.reasons \subseteq Absent(cmd.name)

\* both names were requested, only "b" has no instance, and "a" alone would
\* have been found and composed
C13_Witness ==
    /\ pc = "return"
    /\ cmd.op = "get_clusters"
    /\ cmd.name = {"a", "b"}
    /\ result.type = "ClusterNotFound"
    /\ result.reasons = {"b"}
    /\ get_clusters({"a"}).ok

\* --------------------------------------------------------------- C14
Masters(cn) == {i \in InGroup(cn) : instances[i].role = "master"}

Slaves(cn) == {i \in InGroup(cn) : instances[i].role = "slave"}

\* the names whose instances a call with these names composes
Composed(cluster_names) ==
    {cn \in (IF cluster_names = {} THEN DiscoveryNames ELSE cluster_names) :
         InGroup(cn) # {}}

\* C14: every cluster get_clusters or get_cluster returns has as master the
\* one instance of its group tagged master and as slaves the instances of
\* its group tagged slave, at least one; when the instances of a group that
\* is to be composed have no master, more than one master or no slave, the
\* call raises and returns no cluster.
C14_OneMasterSomeSlaves ==
    /\ \A cluster_names \in SUBSET DiscoveryNames :
          LET r == get_clusters(cluster_names) IN
              /\ r.ok => \A c \in r.clusters :
                    /\ Masters(c.name) = {c.master.id}
                    /\ Len(c.slaves) >= 1
                    /\ SnapIds(c.slaves) = Slaves(c.name)
                    /\ Len(c.slaves) = Cardinality(Slaves(c.name))
              /\ (\E cn \in Composed(cluster_names) :
                      Cardinality(Masters(cn)) # 1 \/ Slaves(cn) = {})
                    => (~r.ok /\ r.clusters = {})
    /\ \A cn \in DiscoveryNames :
          LET r == get_cluster(cn) IN
              /\ r.ok => /\ Masters(cn) = {r.cluster.master.id}
                         /\ SnapIds(r.cluster.slaves) = Slaves(cn)
                         /\ Slaves(cn) # {}
              /\ (Cardinality(Masters(cn)) # 1 \/ Slaves(cn) = {}) =>
                    (~r.ok /\ r.cluster = NoCluster)
    /\ (pc = "return" /\ cmd.op = "get_clusters" /\ result = Ok) =>
          \A cn \in Composed(cmd.name) :
              Cardinality(Masters(cn)) = 1 /\ Slaves(cn) # {}

\* a call without names has returned the clusters "a" and "b" is not there:
\* one master and two slaves
C14_Witness ==
    /\ pc = "return"
    /\ cmd.op = "get_clusters"
    /\ result = Ok
    /\ Cardinality(get_clusters(cmd.name).clusters) = 1
    /\ \E c \in get_clusters(cmd.name).clusters : Len(c.slaves) = 2

\* --------------------------------------------------------------- C15
\* the positions of the calls of an operation in the current command
CallsOf(op) == {k \in 1..Len(calls) : calls[k].op = op}

\* C15: launch calls the provisioner at most once, directly after
\* wait_for_state('running') has returned, when every instance of the cluster
\* is running in the snapshot and at the provider; a launch that ends
\* without error has called it exactly once, as its last call; a launch in
\* which the wait has not returned has not called it.
C15_ProvisionAfterRunning ==
    cmd.op = "launch" =>
        /\ Cardinality(CallsOf("provision_cluster")) <= 1
        /\ \A k \in CallsOf("provision_cluster") :
              /\ k > 1
              /\ calls[k - 1].op = "wait_returned"
              /\ CallsOf("wait_for_state") # {}
              /\ calls[k].ids = calls[k - 1].ids
              /\ \A i \in calls[k].ids : instances[i].state \in {"running", "shutting-down", "terminated"}
        /\ pc = "l_provision" =>
              /\ calls[Len(calls)].op = "wait_returned"
              /\ \A i \in ClusterIds(cluster) : instances[i].state = "running"
              /\ \A x \in Range(ClusterInstances(cluster)) : x.state = "running"
        /\ (pc = "return" /\ result = Ok) =>
              /\ Cardinality(CallsOf("provision_cluster")) = 1
              /\ calls[Len(calls)].op = "provision_cluster"
              /\ \A i \in ClusterIds(cluster) : instances[i].state = "running"
        /\ CallsOf("wait_returned") = {} => CallsOf("provision_cluster") = {}
        /\ (raised # None /\ raised.at # "provision_cluster") =>
              CallsOf("provision_cluster") = {}

\* a launch has ended without error
C15_Witness ==
    /\ pc = "return"
    /\ cmd.op = "launch"
    /\ result = Ok
    /\ calls[Len(calls)].op = "provision_cluster"

\* --------------------------------------------------------------- C16
\* the root device of the image the planner was given
ImageRoot ==
    CHOOSE d \in Range(image.block_device_mappings) : d.DeviceName = image.root_device_name

EphemeralDeviceNames ==
    <<"/dev/sdb", "/dev/sdc", "/dev/sdd", "/dev/sde", "/dev/sdf", "/dev/sdg",
      "/dev/sdh", "/dev/sdi", "/dev/sdj", "/dev/sdk", "/dev/sdl", "/dev/sdm">>

EphemeralVirtualNames ==
    <<"ephemeral0", "ephemeral1", "ephemeral2", "ephemeral3", "ephemeral4",
      "ephemeral5", "ephemeral6", "ephemeral7", "ephemeral8", "ephemeral9",
      "ephemeral10", "ephemeral11">>

\* the entries of the plan after the first `skip` are the twelve ephemeral
\* devices and nothing else
TwelveEphemeralAfter(skip) ==
    /\ Len(block_device_mappings) = skip + 12
    /\ \A k \in 1..12 :
          /\ DOMAIN block_device_mappings[skip + k] = {"VirtualName", "DeviceName"}
          /\ block_device_mappings[skip + k].VirtualName = EphemeralVirtualNames[k]
          /\ block_device_mappings[skip + k].DeviceName = EphemeralDeviceNames[k]

\* C16: the block devices launch has planned when it comes to the
\* acquisition: for an EBS image with a root below 30 GB the root device
\* with 30 GB, gp2 and no Encrypted key, then the twelve ephemeral devices;
\* for an EBS image with a root of 30 GB or more the root device with its
\* size and volume type, then the twelve ephemeral devices; for an
\* instance-store image the twelve ephemeral devices alone.
C16_BlockDevicePlan ==
    (pc = "l_acquire") =>
        /\ image \in Images
        /\ (image.root_device_type = "ebs" /\ ImageRoot.Ebs.VolumeSize < 30) =>
              /\ block_device_mappings[1].DeviceName = image.root_device_name
              /\ block_device_mappings[1].Ebs.VolumeSize = 30
              /\ block_device_mappings[1].Ebs.VolumeType = "gp2"
              /\ "Encrypted" \notin DOMAIN block_device_mappings[1].Ebs
              /\ TwelveEphemeralAfter(1)
        /\ (image.root_device_type = "ebs" /\ ImageRoot.Ebs.VolumeSize >= 30) =>
              /\ block_device_mappings[1].DeviceName = image.root_device_name
              /\ block_device_mappings[1].Ebs.VolumeSize = ImageRoot.Ebs.VolumeSize
              /\ block_device_mappings[1].Ebs.VolumeType = ImageRoot.Ebs.VolumeType
              /\ TwelveEphemeralAfter(1)
        /\ (image.root_device_type = "instance-store") => TwelveEphemeralAfter(0)

\* the plan for an encrypted 8 GB root that comes after a data volume
C16_Witness ==
    /\ pc = "l_acquire"
    /\ image.root_device_type = "ebs"
    /\ Len(image.block_device_mappings) = 2
    /\ ImageRoot.Ebs.VolumeSize = 8
    /\ ImageRoot.Ebs.VolumeType = "standard"
    /\ ImageRoot.Ebs.Encrypted
    /\ Len(block_device_mappings) = 13

\* --------------------------------------------------------------- C17
\* the frame is of a launch of the name that has acquired its instances
Acquired(f, name) ==
    /\ f.cmd.op = "launch"
    /\ f.cmd.name = name
    /\ f.cluster_instances # <<>>

\* the frame is of a launch of the name that has ended without error
EndedOk(f, name) == Acquired(f, name) /\ f.pc = "return" /\ f.result = Ok

\* the frame is of a launch of the name that has passed the pre-existence
\* check and has not acquired yet
PassedCheck(f, name) ==
    /\ f.cmd.op = "launch"
    /\ f.cmd.name = name
    /\ f.pc \in SgPositions \cup {"l_bdm", "l_acquire"}

\* C17: of two processes that launch the same name, the one that comes to
\* the pre-existence check while the other has passed it and has not
\* acquired yet passes it too, whatever the other has done to the groups;
\* the instances each of them acquires are in the one cluster group of the
\* name next to those of the other; and when both launches have ended
\* without error the cluster group holds the instances of both, two of them
\* tagged master, and get_cluster of the name fails ("More than one master
\* found.", or earlier on an instance without tags).
C17_RacingLaunches ==
    \A name \in Names :
        /\ (pc = "l_check" /\ cmd.name = name /\ PassedCheck(other, name)
               /\ InGroup(name) = {}) =>
              pre_existence_check(name) = None
        /\ \A f \in {Frame, other} :
              (Acquired(f, name) /\ f.pc \in {"l_settle", "l_tag_master", "l_tag_slaves"}) =>
                  \A i \in SnapIds(f.cluster_instances) :
                      ClusterGroup(name) \in instances[i].groups
        /\ (EndedOk(Frame, name) /\ EndedOk(other, name)) =>
              /\ SnapIds(cluster_instances) \cap SnapIds(other.cluster_instances) = {}
              /\ SnapIds(cluster_instances) \cup SnapIds(other.cluster_instances)
                     \subseteq InGroup(name)
              /\ {cluster.master.id, other.cluster.master.id} \subseteq Masters(name)
              /\ Cardinality(Masters(name)) >= 2
              /\ ~get_cluster(name).ok
              /\ get_cluster(name).err \in {"MoreThanOneMaster", "TypeError"}

\* both launches have passed the check, acquired, and ended without error
C17_Witness ==
    /\ EndedOk(Frame, "a")
    /\ EndedOk(other, "a")
    /\ Cardinality(Masters("a")) = 2

\* --------------------------------------------------------------- C18
RollbackPositions == {"r_start", "r_describe", "r_confirm", "r_terminate", "r_raise"}

\* C18: no step of launch's rollback, up to the end of launch, changes the
\* security groups or their rules: the base group and the cluster group with
\* every rule the provisioning authorized are there when rollback starts, all
\* through it and when launch has ended; the calls of a launch that has
\* rolled back include no deletion of a group.
C18_RollbackKeepsGroups ==
    /\ [][(pc \in RollbackPositions) => (groups' = groups /\ rules' = rules)]_vars
    /\ []((cmd.op = "launch" /\ raised # None) =>
              /\ pc \in RollbackPositions \cup {"return"}
              /\ SgProvisioned(cmd.name)
              /\ ~Issued("delete_security_group"))

\* a launch has failed, its rollback has terminated the instances, and launch
\* has ended
C18_Witness ==
    /\ LaunchEnded
    /\ raised # None
    /\ confirmed
    /\ calls[Len(calls)].op = "terminate"
    /\ result = raised
    /\ SgProvisioned(cmd.name)

\* --------------------------------------------------------------- C19
\* C19: every authorization of the security-group provisioning either is
\* answered without error or with the duplicate, and the provisioning goes on
\* to the next rule (after the last client rule to the cluster group, after
\* the rule of the cluster group to the block devices), or is answered with
\* another error and launch ends with Exception; a failed public-address
\* lookup ends launch with the lookup's exception.  A launch that ends in one
\* of these ways has submitted no spot request, created no instance, and has
\* not entered its rollback.
C19_SgErrors ==
    /\ [][(pc = "sg_client_rules") =>
              \/ /\ rule_index' = rule_index + 1
                 /\ rules' = rules \cup {<<BaseGroup, ClientRule(rule_index)>>}
                 /\ pc' = IF rule_index = NumClientRules THEN "sg_create_cluster"
                          ELSE "sg_client_rules"
                 /\ result' = result
              \/ /\ pc' = "return"
                 /\ result'.type = "Exception"
                 /\ result'.reasons # {}
                 /\ result'.reasons \cap {"ok", "InvalidPermission.Duplicate"} = {}
                 /\ rules' = rules]_vars
    /\ [][(pc = "sg_self") =>
              \/ /\ rules' = rules \cup {<<ClusterGroup(cmd.name), SelfRule>>}
                 /\ pc' = "l_bdm"
                 /\ result' = result
              \/ /\ pc' = "return"
                 /\ result'.type = "Exception"
                 /\ result'.reasons # {}
                 /\ result'.reasons \cap {"ok", "InvalidPermission.Duplicate"} = {}
                 /\ rules' = rules]_vars
    /\ [][(pc = "sg_client_ips") =>
              \/ pc' = "sg_client_rules" /\ result' = result
              \/ pc' = "return" /\ result'.type = "URLError"]_vars
    /\ []((LaunchEnded /\ result.at \in {"checkip", "authorize_ingress"}) =>
              /\ raised = None
              /\ ~confirmed
              /\ cluster_instances = <<>>
              /\ spot_requests = <<>>
              /\ AttemptIds = {}
              /\ \A k \in 1..Len(calls) :
                    calls[k].op \in {"create_security_group", "authorize_ingress"})

\* the groups were provisioned before; the first two authorizations of this
\* launch were answered with the duplicate and passed over, the third with
\* another error, which ended launch
C19_Witness ==
    /\ LaunchEnded
    /\ result.at = "authorize_ingress"
    /\ result.reasons = {"RequestLimitExceeded"}
    /\ SgProvisioned(cmd.name)
    /\ rule_index = 3
    /\ Len(calls) = 3

\* --------------------------------------------------------------- C20
\* the provider has every tracked instance in the target state, with its
\* role tag
ProviderInTarget ==
    \A i \in ClusterIds(cluster) :
        /\ instances[i].state = wait.target
        /\ instances[i].role \in {"master", "slave"}

\* C20: wait_for_state does not stay in its loop for ever with the provider
\* reporting every tracked instance in the target state from some point on:
\* it leaves the loop (it returns, unless an interrupt ends it first).  With
\* a snapshot in which some instance is not in the target state no step of
\* wait_for_state returns: the only steps are another describe, which keeps
\* it in the loop, or an exception; there is no deadline.
C20_WaitLiveness ==
    /\ []<>(~(pc = "wfs" /\ ProviderInTarget))
    /\ [][(pc = "wfs" /\ wait_condition(cluster, wait.target)) =>
              \/ pc' = "wfs" /\ wait' = wait /\ calls' = calls
              \/ pc' \in {"r_start", "return"} /\ (raised' # None \/ result' # Ok)]_vars

\* a wait whose snapshot is behind: the provider has every tracked instance
\* in the target state, the loop condition is still true
C20_Witness ==
    /\ pc = "wfs"
    /\ ProviderInTarget
    /\ wait_condition(cluster, wait.target)

\* --------------------------------------------------------------- C21
\* the states the instances of the cluster have in its snapshot
SnapshotStates(c) == {c.master.state} \cup {c.slaves[k].state : k \in 1..Len(c.slaves)}

\* the cluster with another name and other instance ids, every instance
\* with the state it has
Renamed(c) ==
    [name |-> "other",
     master |-> [c.master EXCEPT !.id = 0],
     slaves |-> [k \in 1..Len(c.slaves) |-> [c.slaves[k] EXCEPT !.id = k]]]

\* C21: the state of every cluster object a command holds, and of the
\* cluster discovery composes from the inventory, is the one state its master
\* and slaves all have in the snapshot when they have the same, and
\* 'inconsistent' when two of them differ; a cluster with another name and
\* other instance ids but the same instance states has the same state.
C21_AggregateState ==
    \A c \in {cluster} \cup {get_cluster(name).cluster : name \in Names} :
        c # NoCluster =>
            /\ \A st \in SnapshotStates(c) :
                  SnapshotStates(c) = {st} => ClusterState(c) = st
            /\ Cardinality(SnapshotStates(c)) >= 2 => ClusterState(c) = "inconsistent"
            /\ ClusterState(c) \in SnapshotStates(c) \cup {"inconsistent"}
            /\ ClusterState(Renamed(c)) = ClusterState(c)

\* a cluster whose master is running while a slave is not yet
C21_Witness ==
    /\ pc = "wfs"
    /\ cluster.master.state = "running"
    /\ \E k \in 1..Len(cluster.slaves) : cluster.slaves[k].state = "pending"
    /\ ClusterState(cluster) = "inconsistent"

\* --------------------------------------------------------------- C22
\* the ids of the master and the slaves of the cluster object
SnapshotIds(c) == {c.master.id} \cup {c.slaves[k].id : k \in 1..Len(c.slaves)}

\* the calls of the current command that tag instances with a role
TagCalls == CallsOf("create_tags_master") \cup CallsOf("create_tags_slave")

\* start, stop and terminate: at most one call in a command, over the ids of
\* all instances of the cluster (in rollback: of all instances launch knows)
OneCallOverAll ==
    /\ \A op \in {"start", "stop", "terminate"} : Cardinality(CallsOf(op)) <= 1
    /\ \A k \in CallsOf("start") \cup CallsOf("stop") : calls[k].ids = SnapshotIds(cluster)
    /\ \A k \in CallsOf("terminate") :
          calls[k].ids = IF cmd.op = "launch" THEN SnapIds(cluster_instances)
                         ELSE SnapshotIds(cluster)
    /\ (pc = "return" /\ result = Ok) =>
          /\ cmd.op = "start" => Cardinality(CallsOf("start")) = 1
          /\ cmd.op = "stop" => Cardinality(CallsOf("stop")) = 1
          /\ cmd.op = "destroy" => Cardinality(CallsOf("terminate")) = 1

\* C22 as stated: start, stop, terminate and the role tagging of launch are
\* one call each, over the ids of all instances.
C22_OneCallEach ==
    /\ OneCallOverAll
    /\ Cardinality(TagCalls) <= 1
    /\ \A k \in TagCalls : calls[k].ids = SnapIds(cluster_instances)

\* C22, amended: start, stop and terminate are one call each over the ids of
\* all instances; the role tagging of launch is two calls, one for the
\* master alone and after it one for all slaves together, whatever the
\* number of slaves.
C22_BatchedCalls ==
    /\ OneCallOverAll
    /\ Cardinality(CallsOf("create_tags_master")) <= 1
    /\ Cardinality(CallsOf("create_tags_slave")) <= 1
    /\ \A k \in CallsOf("create_tags_master") : calls[k].ids = {cluster_instances[1].id}
    /\ \A k \in CallsOf("create_tags_slave") :
          /\ calls[k].ids = SnapIds(Tail(cluster_instances))
          /\ Cardinality(calls[k].ids) = cmd.num_slaves
          /\ k > 1
          /\ calls[k - 1].op = "create_tags_master"
    /\ (LaunchEnded /\ result = Ok) =>
          /\ Cardinality(TagCalls) = 2
          /\ UNION {calls[k].ids : k \in TagCalls} = SnapshotIds(cluster)

\* a launch with two slaves has ended without error: two tagging calls
C22_Witness ==
    /\ LaunchEnded
    /\ result = Ok
    /\ cmd.num_slaves = 2
    /\ Cardinality(TagCalls) = 2

\* --------------------------------------------------------------- C23
\* the ids wait_for_state was called with, in the current command
WaitCallIds == calls[CHOOSE k \in CallsOf("wait_for_state") : TRUE].ids

\* C23: while wait_for_state runs, and when it has returned, the cluster
\* tracks the ids it tracked when wait_for_state was called, and when it has
\* returned every one of them is in the target state in the snapshot.
C23_NoInstanceLost ==
    (CallsOf("wait_for_state") # {} /\ (pc = "wfs" \/ CallsOf("wait_returned") # {})) =>
        /\ SnapshotIds(cluster) = WaitCallIds
        /\ \A k \in CallsOf("wait_returned") : calls[k].ids = WaitCallIds

\* --------------------------------------------------------------- C24
\* C24: when destroy has ended with an error, every instance of the cluster
\* that is not terminated (or on its way to it) is a member of the cluster
\* group, and get_cluster of the name returns the cluster with all of them.
C24_NoOrphan ==
    (pc = "return" /\ cmd.op = "destroy" /\ result # Ok /\ cluster # NoCluster) =>
        \A i \in SnapshotIds(cluster) :
            Survives(i) =>
                /\ ClusterGroup(cmd.name) \in instances[i].groups
                /\ get_cluster(cmd.name).ok
                /\ i \in SnapshotIds(get_cluster(cmd.name).cluster)

\* --------------------------------------------------------------- C25
\* destroy has completed: it made its terminate call and ended without error
DestroyCompleted ==
    pc = "return" /\ cmd.op = "destroy" /\ result = Ok /\ CallsOf("terminate") # {}

\* C25: once destroy of a name has completed, get_cluster of the name fails
\* with ClusterNotFound, get_clusters without names succeeds and returns no
\* cluster of that name, and the pre-existence check of a launch with the same
\* name passes.
C25_DestroyRoundTrip ==
    DestroyCompleted =>
        /\ ~get_cluster(cmd.name).ok
        /\ get_cluster(cmd.name).err = "ClusterNotFound"
        /\ get_clusters({}).ok
        /\ \A c \in get_clusters({}).clusters : c.name # cmd.name
        /\ pre_existence_check(cmd.name) = None

====
